---- MODULE Spec2Model ----
(***************************************************************************)
(* Expense approval core: ApprovalRuleEngine, ApprovalFlowService and      *)
(* ExpenseService, as a state machine.                                     *)
(*                                                                         *)
(* Every public operation is an operator that returns the outcome of the   *)
(* call (err: "ok" or the error it throws) together with the state the     *)
(* call leaves behind; the action of the same name applies it. A call that *)
(* throws keeps every mutation made before the throw, so a failed call is  *)
(* a step that may or may not change the state.                            *)
(*                                                                         *)
(* Kept of each record: the fields the services read or write. A Date is   *)
(* kept as whether it is set (startedAt, completedAt, submittedAt); names,  *)
(* comments, currency, description and attachments are passed through by   *)
(* the code and left out. Expense ids (`exp-${Date.now()}-${random}`) are   *)
(* distinct, flow ids (`flow-${expense.id}-${Date.now()}`) are distinct     *)
(* only across expenses and milliseconds.                                  *)
(*                                                                         *)
(* Six specifications: Spec runs the two services over the constructor's   *)
(* rules; RuleSpec adds the configuration of the rule engine (addRule,     *)
(* updateRule, deactivateRule) to the expense operations; LiveSpec is      *)
(* RuleSpec without addRule and with approvers who keep acting;            *)
(* ConditionSpec starts from engines of one rule, over a range of          *)
(* conditions, and one draft expense, and evaluates the rule through       *)
(* submitExpense; DefaultSpec runs one expense through ExpenseService over *)
(* an engine constructed from DEFAULT_APPROVAL_RULES; StoreSpec runs the   *)
(* client store (useAppStore), whose expenses, rules and approval workflow *)
(* are its own and share nothing with the services.                        *)
(***************************************************************************)
EXTENDS Integers, Sequences, FiniteSets, TLC

VARIABLES
  rules,     \* ApprovalRuleEngine.rules : the rule array, in stored order
  flows,     \* ApprovalFlowService.flows : the Map, as its entries in insertion order
  expenses,  \* ExpenseService.expenses : the Map; expense k is the k-th created
  now,       \* the millisecond Date.now() reads
  directCreates,    \* how many flows callers stored by running createApprovalFlow themselves
  directApprovals,  \* how many actions callers recorded by running processApproval themselves
  store      \* useAppStore : the client store's state (expenses, rules, currentUser)

vars == <<rules, flows, expenses, now, directCreates, directApprovals, store>>

----------------------------------------------------------------------------
(* Bounds of the model                                                     *)

\* number of clock ticks (Date.now() ranges over 0..MaxClock)
MaxClock == 1
\* number of createApprovalFlow calls made by callers other than submitExpense
MaxDirectCreates == 1
\* number of successful processApproval calls made by callers other than
\* processExpenseApproval
MaxDirectApprovals == 1

(* Inputs                                                                  *)
Approvers == {"u1", "u2"}
Roles == {"MANAGER", "DIRECTOR"}
ApprovalActions == {"APPROVED", "REJECTED"}
Employees == {"emp1"}
Requesters == {"emp1", "emp2"}
Amounts == {5, 50, 500, 5000}
Categories == {"MEALS"}
\* the ids createExpense allocates, in this order
ExpenseIds == {1}
\* ids a caller may pass: 0 is never allocated
ExpenseIdInputs == {0} \cup ExpenseIds
\* rule ids a caller may pass: no rule is ever called rule-9
RuleIdInputs == {"rule-1", "rule-9"}

----------------------------------------------------------------------------
(* ApprovalRuleEngine                                                      *)

\* evaluateAmountCondition with GREATER_THAN_OR_EQUAL and LESS_THAN_OR_EQUAL
\* compared strictly
evaluateAmountConditionStrict(condition, amount) ==
  LET threshold == condition.value IN
  CASE condition.operator = "EQUALS" -> amount = threshold
    [] condition.operator = "GREATER_THAN" -> amount > threshold
    [] condition.operator = "LESS_THAN" -> amount < threshold
    [] condition.operator = "GREATER_THAN_OR_EQUAL" -> amount > threshold
    [] condition.operator = "LESS_THAN_OR_EQUAL" -> amount < threshold
    [] OTHER -> FALSE

\* evaluateAmountCondition: the comparison the operator names, false otherwise
evaluateAmountCondition(condition, amount) ==
  LET threshold == condition.value IN
  CASE condition.operator = "EQUALS" -> amount = threshold
    [] condition.operator = "GREATER_THAN" -> amount > threshold
    [] condition.operator = "LESS_THAN" -> amount < threshold
    [] condition.operator = "GREATER_THAN_OR_EQUAL" -> amount >= threshold
    [] condition.operator = "LESS_THAN_OR_EQUAL" -> amount <= threshold
    [] OTHER -> FALSE

\* evaluateCategoryCondition with every other operator read as EQUALS
evaluateCategoryConditionDefaultEquals(condition, category) ==
  CASE condition.operator = "IN" -> category \in condition.value
    [] OTHER -> category = condition.value

\* evaluateCategoryCondition: equality, or membership in the value list
evaluateCategoryCondition(condition, category) ==
  CASE condition.operator = "EQUALS" -> category = condition.value
    [] condition.operator = "IN" -> category \in condition.value
    [] OTHER -> FALSE

\* evaluateCondition with every type but AMOUNT and CATEGORY falling to the default
evaluateConditionNoPlaceholder(condition, expense) ==
  CASE condition.type = "AMOUNT" -> evaluateAmountCondition(condition, expense.amount)
    [] condition.type = "CATEGORY" -> evaluateCategoryCondition(condition, expense.category)
    [] OTHER -> FALSE

\* evaluateCondition: dispatch on the condition type
evaluateCondition(condition, expense) ==
  CASE condition.type = "AMOUNT" -> evaluateAmountCondition(condition, expense.amount)
    [] condition.type = "CATEGORY" -> evaluateCategoryCondition(condition, expense.category)
    [] condition.type = "DEPARTMENT" -> TRUE
    [] condition.type = "EMPLOYEE_LEVEL" -> TRUE
    [] OTHER -> FALSE

\* evaluateRule with one condition that holds enough to match
evaluateRuleAnyCondition(rule, expense) ==
  \E i \in 1..Len(rule.conditions) : evaluateCondition(rule.conditions[i], expense)

\* evaluateRule: every condition holds
evaluateRule(rule, expense) ==
  \A i \in 1..Len(rule.conditions) : evaluateCondition(rule.conditions[i], expense)

\* findMatchingIndex with inactive rules scanned as well
findMatchingIndexIgnoresActive(rs, expense) ==
  LET hits == {i \in 1..Len(rs) : evaluateRule(rs[i], expense)} IN
  IF hits = {} THEN 0 ELSE CHOOSE i \in hits : \A j \in hits : i <= j

\* findMatchingIndex with the last active match in stored order returned
findMatchingIndexLast(rs, expense) ==
  LET hits == {i \in 1..Len(rs) : rs[i].active /\ evaluateRule(rs[i], expense)} IN
  IF hits = {} THEN 0 ELSE CHOOSE i \in hits : \A j \in hits : i >= j

\* the index of the first active rule, in stored order, that matches; 0 for null
findMatchingIndex(rs, expense) ==
  LET hits == {i \in 1..Len(rs) : rs[i].active /\ evaluateRule(rs[i], expense)} IN
  IF hits = {} THEN 0 ELSE CHOOSE i \in hits : \A j \in hits : i <= j

\* findMatchingRule: the rule at that index; NoRule for null
NoRule == [id |-> "none"]
findMatchingRule(rs, expense) ==
  LET i == findMatchingIndex(rs, expense) IN IF i = 0 THEN NoRule ELSE rs[i]

\* insert r into a list sorted by descending priority, after its equals
RECURSIVE InsertByPriority(_, _)
InsertByPriority(sorted, r) ==
  IF sorted = <<>> THEN <<r>>
  ELSE IF Head(sorted).priority >= r.priority
       THEN <<Head(sorted)>> \o InsertByPriority(Tail(sorted), r)
       ELSE <<r>> \o sorted

\* Array.prototype.sort((a, b) => b.priority - a.priority): stable, descending
RECURSIVE SortByPriority(_)
SortByPriority(rs) ==
  IF rs = <<>> THEN <<>>
  ELSE InsertByPriority(SortByPriority(SubSeq(rs, 1, Len(rs) - 1)), rs[Len(rs)])

\* findIndex(r => r.id === ruleId): 0 for -1
RuleIndex(rs, ruleId) ==
  LET hits == {i \in 1..Len(rs) : rs[i].id = ruleId} IN
  IF hits = {} THEN 0 ELSE CHOOSE i \in hits : \A j \in hits : i <= j

\* the rule object as the engine holds it; inserted is the position at which it
\* entered the engine (no field of the code: it tells rule objects apart)
Inserted(rule, k) ==
  [id |-> rule.id, name |-> rule.name, priority |-> rule.priority,
   active |-> rule.active, conditions |-> rule.conditions,
   approvalLevels |-> rule.approvalLevels, inserted |-> k]

\* new ApprovalRuleEngine(ruleList): a sorted copy of the array
NewEngine(ruleList) ==
  SortByPriority([k \in 1..Len(ruleList) |-> Inserted(ruleList[k], k)])

\* AddRule with the rule put in front and no sort
AddRuleAtFront(rs, rule) == <<Inserted(rule, Len(rs) + 1)>> \o rs

\* AddRule with the push alone, no sort
AddRuleNoSort(rs, rule) == Append(rs, Inserted(rule, Len(rs) + 1))

\* addRule(rule): push, then sort (the engine never removes a rule)
AddRule(rs, rule) == SortByPriority(Append(rs, Inserted(rule, Len(rs) + 1)))

\* { ...rule, ...updates }: the fields updates names take its values
MergeRule(rule, updates) ==
  [f \in DOMAIN rule |-> IF f \in DOMAIN updates THEN updates[f] ELSE rule[f]]

\* updateRule(ruleId, updates): merge into the first rule with the id, sort again
UpdateRule(rs, ruleId, updates) ==
  LET index == RuleIndex(rs, ruleId) IN
  IF index = 0 THEN [ok |-> FALSE, rules |-> rs]
  ELSE [ok |-> TRUE,
        rules |-> SortByPriority([rs EXCEPT ![index] = MergeRule(@, updates)])]

\* deactivateRule: updateRule(ruleId, {active: false})
DeactivateRule(rs, ruleId) == UpdateRule(rs, ruleId, [active |-> FALSE])

\* the rules handed to the constructor, levels numbered 1..n in order: one level
\* that needs two approvers, two levels with different roles, a rule that lists
\* no level, and an inactive rule, the only one to take an amount of 1000 or more
ConstructorRules ==
  << [id |-> "rule-1", name |-> "Single Level", priority |-> 1, active |-> TRUE,
      conditions |-> << [type |-> "AMOUNT", operator |-> "LESS_THAN", value |-> 100] >>,
      approvalLevels |->
        << [level |-> 1, approverRoles |-> {"MANAGER"}, requiredApprovers |-> 2] >>],
     [id |-> "rule-2", name |-> "Two Level", priority |-> 2, active |-> TRUE,
      conditions |->
        << [type |-> "AMOUNT", operator |-> "GREATER_THAN_OR_EQUAL", value |-> 100],
           [type |-> "AMOUNT", operator |-> "LESS_THAN", value |-> 1000] >>,
      approvalLevels |->
        << [level |-> 1, approverRoles |-> {"MANAGER"}, requiredApprovers |-> 1],
           [level |-> 2, approverRoles |-> {"DIRECTOR"}, requiredApprovers |-> 1] >>],
     [id |-> "rule-3", name |-> "No Level", priority |-> 3, active |-> TRUE,
      conditions |-> << [type |-> "AMOUNT", operator |-> "LESS_THAN", value |-> 10] >>,
      approvalLevels |-> << >>],
     [id |-> "rule-4", name |-> "Retired", priority |-> 4, active |-> FALSE,
      conditions |->
        << [type |-> "AMOUNT", operator |-> "GREATER_THAN_OR_EQUAL", value |-> 1000] >>,
      approvalLevels |->
        << [level |-> 1, approverRoles |-> {"MANAGER"}, requiredApprovers |-> 1] >>] >>

\* the rule templates the models ship, all active
DEFAULT_APPROVAL_RULES ==
  << [id |-> "rule-1", name |-> "Small Expenses (< $100)", priority |-> 1, active |-> TRUE,
      conditions |-> << [type |-> "AMOUNT", operator |-> "LESS_THAN", value |-> 100] >>,
      approvalLevels |->
        << [level |-> 1, approverRoles |-> {"MANAGER"}, requiredApprovers |-> 1] >>],
     [id |-> "rule-2", name |-> "Medium Expenses ($100 - $1000)", priority |-> 2,
      active |-> TRUE,
      conditions |->
        << [type |-> "AMOUNT", operator |-> "GREATER_THAN_OR_EQUAL", value |-> 100],
           [type |-> "AMOUNT", operator |-> "LESS_THAN", value |-> 1000] >>,
      approvalLevels |->
        << [level |-> 1, approverRoles |-> {"MANAGER"}, requiredApprovers |-> 1] >>],
     [id |-> "rule-3", name |-> "Large Expenses ($1000 - $5000)", priority |-> 3,
      active |-> TRUE,
      conditions |->
        << [type |-> "AMOUNT", operator |-> "GREATER_THAN_OR_EQUAL", value |-> 1000],
           [type |-> "AMOUNT", operator |-> "LESS_THAN", value |-> 5000] >>,
      approvalLevels |->
        << [level |-> 1, approverRoles |-> {"MANAGER"}, requiredApprovers |-> 1],
           [level |-> 2, approverRoles |-> {"DIRECTOR"}, requiredApprovers |-> 1] >>],
     [id |-> "rule-4", name |-> "Very Large Expenses (>= $5000)", priority |-> 4,
      active |-> TRUE,
      conditions |->
        << [type |-> "AMOUNT", operator |-> "GREATER_THAN_OR_EQUAL", value |-> 5000] >>,
      approvalLevels |->
        << [level |-> 1, approverRoles |-> {"MANAGER"}, requiredApprovers |-> 1],
           [level |-> 2, approverRoles |-> {"DIRECTOR"}, requiredApprovers |-> 1],
           [level |-> 3, approverRoles |-> {"VP", "CFO"}, requiredApprovers |-> 1] >>],
     [id |-> "rule-5", name |-> "Travel Expenses Special Rule", priority |-> 5,
      active |-> TRUE,
      conditions |->
        << [type |-> "CATEGORY", operator |-> "EQUALS", value |-> "TRAVEL"],
           [type |-> "AMOUNT", operator |-> "GREATER_THAN", value |-> 500] >>,
      approvalLevels |->
        << [level |-> 1, approverRoles |-> {"MANAGER"}, requiredApprovers |-> 1],
           [level |-> 2, approverRoles |-> {"TRAVEL_COORDINATOR"},
            requiredApprovers |-> 1] >>] >>

\* the amounts expenses are created with under the default rules: each threshold
\* of a default rule, the amount next to it on either side, and one well inside
\* the lowest and the highest band
DefaultAmounts == {50, 99, 100, 101, 499, 500, 501, 999, 1000, 1001, 4999, 5000, 5001, 8000}

\* the rules callers hand to addRule: one of the lowest priority that every
\* expense matches, and one that takes an id the constructor's rules already use
AddableRules ==
  << [id |-> "rule-5", name |-> "Catch All", priority |-> 0, active |-> TRUE,
     conditions |-> << [type |-> "DEPARTMENT", operator |-> "EQUALS", value |-> "SALES"] >>,
     approvalLevels |->
       << [level |-> 1, approverRoles |-> {"DIRECTOR"}, requiredApprovers |-> 1] >>],
    [id |-> "rule-1", name |-> "Single Level By Director", priority |-> 2, active |-> TRUE,
     conditions |-> << [type |-> "AMOUNT", operator |-> "LESS_THAN", value |-> 100] >>,
     approvalLevels |->
       << [level |-> 1, approverRoles |-> {"DIRECTOR"}, requiredApprovers |-> 1] >>] >>

\* the conditions rules are written with: every amount operator around the
\* threshold 50, both category operators, department and employee-level
\* conditions, operators the type of the condition does not know, and a type and
\* an operator outside the declared ones
ConditionInputs ==
  << [type |-> "AMOUNT", operator |-> "EQUALS", value |-> 50],
     [type |-> "AMOUNT", operator |-> "GREATER_THAN", value |-> 50],
     [type |-> "AMOUNT", operator |-> "LESS_THAN", value |-> 50],
     [type |-> "AMOUNT", operator |-> "GREATER_THAN_OR_EQUAL", value |-> 50],
     [type |-> "AMOUNT", operator |-> "LESS_THAN_OR_EQUAL", value |-> 50],
     [type |-> "CATEGORY", operator |-> "EQUALS", value |-> "MEALS"],
     [type |-> "CATEGORY", operator |-> "IN", value |-> {"MEALS", "TRAVEL"}],
     [type |-> "DEPARTMENT", operator |-> "EQUALS", value |-> "SALES"],
     [type |-> "DEPARTMENT", operator |-> "GREATER_THAN", value |-> 7],
     [type |-> "EMPLOYEE_LEVEL", operator |-> "LESS_THAN", value |-> 3],
     [type |-> "EMPLOYEE_LEVEL", operator |-> "IN", value |-> {"SENIOR"}],
     [type |-> "AMOUNT", operator |-> "IN", value |-> {"MEALS"}],
     [type |-> "CATEGORY", operator |-> "GREATER_THAN", value |-> "MEALS"],
     [type |-> "CATEGORY", operator |-> "LESS_THAN", value |-> "TRAVEL"],
     [type |-> "CATEGORY", operator |-> "GREATER_THAN_OR_EQUAL", value |-> "MEALS"],
     [type |-> "CATEGORY", operator |-> "LESS_THAN_OR_EQUAL", value |-> "TRAVEL"],
     [type |-> "REGION", operator |-> "EQUALS", value |-> "EMEA"],
     [type |-> "AMOUNT", operator |-> "BETWEEN", value |-> 50] >>

\* the categories of the expenses the conditions are evaluated on
ConditionCategories == {"MEALS", "TRAVEL", "OTHER"}

\* a rule with the given conditions and one level
RuleWithConditions(conditions) ==
  [id |-> "rule-c", name |-> "Conditions", priority |-> 1, active |-> TRUE,
   conditions |-> conditions,
   approvalLevels |->
     << [level |-> 1, approverRoles |-> {"MANAGER"}, requiredApprovers |-> 1] >>]

\* the updates callers hand to updateRule
UpdateInputs ==
  << [active |-> TRUE],
    [priority |-> 3],
    [approvalLevels |->
       << [level |-> 1, approverRoles |-> {"MANAGER"}, requiredApprovers |-> 1],
          [level |-> 2, approverRoles |-> {"MANAGER"}, requiredApprovers |-> 1] >>] >>

----------------------------------------------------------------------------
(* ApprovalFlowService                                                     *)

\* `flow-${expense.id}-${Date.now()}`
FlowId(expenseId, t) == <<expenseId, t>>
NoFlowId == <<0, 0>>

\* the position of the entry with this key; 0 when the Map has none
FlowIndex(fs, flowId) ==
  LET hits == {i \in 1..Len(fs) : fs[i].id = flowId} IN
  IF hits = {} THEN 0 ELSE CHOOSE i \in hits : TRUE

\* Map.set: a present key keeps its position and takes the new value
MapSet(fs, flow) ==
  LET i == FlowIndex(fs, flow.id) IN
  IF i = 0 THEN Append(fs, flow) ELSE [fs EXCEPT ![i] = flow]

\* NewSteps with every step marked started
NewStepsAllStarted(rule) ==
  [index \in 1..Len(rule.approvalLevels) |->
     [level |-> rule.approvalLevels[index].level,
      approverRoles |-> rule.approvalLevels[index].approverRoles,
      requiredApprovers |-> rule.approvalLevels[index].requiredApprovers,
      approvals |-> <<>>,
      status |-> "PENDING",
      startedAt |-> TRUE,
      completedAt |-> FALSE]]

\* one step per approval level of the rule, in the rule's order
NewSteps(rule) ==
  [index \in 1..Len(rule.approvalLevels) |->
     [level |-> rule.approvalLevels[index].level,
      approverRoles |-> rule.approvalLevels[index].approverRoles,
      requiredApprovers |-> rule.approvalLevels[index].requiredApprovers,
      approvals |-> <<>>,
      status |-> "PENDING",
      startedAt |-> (index = 1),
      completedAt |-> FALSE]]

\* the flow object createApprovalFlow builds
NewFlow(expense, rule, t) ==
  [id |-> FlowId(expense.id, t),
   expenseId |-> expense.id,
   ruleId |-> rule.id,
   currentLevel |-> 1,
   totalLevels |-> Len(rule.approvalLevels),
   status |-> "PENDING",
   steps |-> NewSteps(rule),
   completedAt |-> FALSE]

\* CreateApprovalFlow with the first stored rule as the fallback for no match
CreateApprovalFlowFallback(rs, fs, expense, t) ==
  LET found == findMatchingRule(rs, expense)
      rule == IF found = NoRule /\ rs # <<>> THEN rs[1] ELSE found IN
  IF rule = NoRule
  THEN [err |-> "NoMatchingRule", flows |-> fs, flowId |-> NoFlowId]
  ELSE [err |-> "ok", flows |-> MapSet(fs, NewFlow(expense, rule, t)),
        flowId |-> FlowId(expense.id, t)]

\* createApprovalFlow(expense) at millisecond t
CreateApprovalFlow(rs, fs, expense, t) ==
  LET rule == findMatchingRule(rs, expense) IN
  IF rule = NoRule
  THEN [err |-> "NoMatchingRule", flows |-> fs, flowId |-> NoFlowId]
  ELSE [err |-> "ok", flows |-> MapSet(fs, NewFlow(expense, rule, t)),
        flowId |-> FlowId(expense.id, t)]

\* approvals.filter(a => a.action === 'APPROVED').length
ApprovedCount(approvals) ==
  Cardinality({k \in 1..Len(approvals) : approvals[k].action = "APPROVED"})

\* approvals.find(a => a.approverId === approverId) finds one
HasActed(step, approverId) ==
  \E k \in 1..Len(step.approvals) : step.approvals[k].approverId = approverId

\* the current step after the action is pushed and, on a rejection, closed
StepRejected(step, approval) ==
  [step EXCEPT !.approvals = Append(@, approval),
               !.status = "REJECTED", !.completedAt = TRUE]

\* StepApproved with the approval pushed and the step never closed
StepApprovedLeftOpen(step, approval) ==
  [step EXCEPT !.approvals = Append(@, approval)]

\* StepApproved with the step closed only by one approval more than required
StepApprovedOneMore(step, approval) ==
  LET pushed == Append(step.approvals, approval) IN
  IF ApprovedCount(pushed) > step.requiredApprovers
  THEN [step EXCEPT !.approvals = pushed, !.status = "APPROVED", !.completedAt = TRUE]
  ELSE [step EXCEPT !.approvals = pushed]

\* the current step after an approval is pushed: closed once enough approved
StepApproved(step, approval) ==
  LET pushed == Append(step.approvals, approval) IN
  IF ApprovedCount(pushed) >= step.requiredApprovers
  THEN [step EXCEPT !.approvals = pushed, !.status = "APPROVED", !.completedAt = TRUE]
  ELSE [step EXCEPT !.approvals = pushed]

\* FlowRejected with the step closed and the flow left as it is
FlowRejectedStepOnly(flow, approval) ==
  [flow EXCEPT !.steps[flow.currentLevel] = StepRejected(@, approval)]

\* the flow after a rejection at its current level
FlowRejected(flow, approval) ==
  [flow EXCEPT !.steps[flow.currentLevel] = StepRejected(@, approval),
               !.status = "REJECTED", !.completedAt = TRUE]

\* FlowApproved with the level left where it is when a step completes
FlowApprovedStaysAtLevel(flow, approval) ==
  LET step == StepApproved(flow.steps[flow.currentLevel], approval)
      stepped == [flow EXCEPT !.steps[flow.currentLevel] = step] IN
  IF step.status # "APPROVED" THEN stepped
  ELSE IF flow.currentLevel < flow.totalLevels THEN stepped
       ELSE [stepped EXCEPT !.status = "APPROVED", !.completedAt = TRUE]

\* FlowApproved with the level advanced but the completed step left PENDING
FlowApprovedStepLeftPending(flow, approval) ==
  LET step == StepApproved(flow.steps[flow.currentLevel], approval)
      left == [step EXCEPT !.status = "PENDING"]
      stepped == [flow EXCEPT !.steps[flow.currentLevel] = left] IN
  IF step.status # "APPROVED" THEN stepped
  ELSE IF flow.currentLevel < flow.totalLevels
       THEN [stepped EXCEPT !.currentLevel = @ + 1,
                            !.steps[flow.currentLevel + 1].startedAt = TRUE]
       ELSE [stepped EXCEPT !.status = "APPROVED", !.completedAt = TRUE]

\* the flow after an approval at its current level: next level, or complete
FlowApproved(flow, approval) ==
  LET step == StepApproved(flow.steps[flow.currentLevel], approval)
      stepped == [flow EXCEPT !.steps[flow.currentLevel] = step] IN
  IF step.status # "APPROVED" THEN stepped
  ELSE IF flow.currentLevel < flow.totalLevels
       THEN [stepped EXCEPT !.currentLevel = @ + 1,
                            !.steps[flow.currentLevel + 1].startedAt = TRUE]
       ELSE [stepped EXCEPT !.status = "APPROVED", !.completedAt = TRUE]

\* ProcessApprovalError without the check that the flow is still pending
ProcessApprovalErrorNoResolvedCheck(fs, flowId, approverId, approverRole) ==
  LET i == FlowIndex(fs, flowId) IN
  IF i = 0 THEN "FlowNotFound"
  ELSE IF fs[i].currentLevel \notin 1..Len(fs[i].steps) THEN "InvalidLevel"
  ELSE IF approverRole \notin fs[i].steps[fs[i].currentLevel].approverRoles
       THEN "UnauthorizedRole"
  ELSE IF HasActed(fs[i].steps[fs[i].currentLevel], approverId)
       THEN "DuplicateApproval"
  ELSE "ok"

\* ProcessApprovalError with the role looked up in every step of the flow
ProcessApprovalErrorAnyLevelRole(fs, flowId, approverId, approverRole) ==
  LET i == FlowIndex(fs, flowId) IN
  IF i = 0 THEN "FlowNotFound"
  ELSE IF fs[i].status # "PENDING" THEN "FlowAlreadyResolved"
  ELSE IF fs[i].currentLevel \notin 1..Len(fs[i].steps) THEN "InvalidLevel"
  ELSE IF \A k \in 1..Len(fs[i].steps) : approverRole \notin fs[i].steps[k].approverRoles
       THEN "UnauthorizedRole"
  ELSE IF HasActed(fs[i].steps[fs[i].currentLevel], approverId)
       THEN "DuplicateApproval"
  ELSE "ok"

\* ProcessApprovalError without the check for an earlier action of the approver
ProcessApprovalErrorNoDuplicateCheck(fs, flowId, approverId, approverRole) ==
  LET i == FlowIndex(fs, flowId) IN
  IF i = 0 THEN "FlowNotFound"
  ELSE IF fs[i].status # "PENDING" THEN "FlowAlreadyResolved"
  ELSE IF fs[i].currentLevel \notin 1..Len(fs[i].steps) THEN "InvalidLevel"
  ELSE IF approverRole \notin fs[i].steps[fs[i].currentLevel].approverRoles
       THEN "UnauthorizedRole"
  ELSE "ok"

\* the checks of processApproval, in the order the code makes them
ProcessApprovalError(fs, flowId, approverId, approverRole) ==
  LET i == FlowIndex(fs, flowId) IN
  IF i = 0 THEN "FlowNotFound"
  ELSE IF fs[i].status # "PENDING" THEN "FlowAlreadyResolved"
  ELSE IF fs[i].currentLevel \notin 1..Len(fs[i].steps) THEN "InvalidLevel"
  ELSE IF approverRole \notin fs[i].steps[fs[i].currentLevel].approverRoles
       THEN "UnauthorizedRole"
  ELSE IF HasActed(fs[i].steps[fs[i].currentLevel], approverId)
       THEN "DuplicateApproval"
  ELSE "ok"

\* processApproval(flowId, approverId, _, approverRole, action)
ProcessApproval(fs, flowId, approverId, approverRole, action) ==
  LET err == ProcessApprovalError(fs, flowId, approverId, approverRole)
      i == FlowIndex(fs, flowId)
      approval == [approverId |-> approverId, approverRole |-> approverRole,
                   action |-> action] IN
  IF err # "ok" THEN [err |-> err, flows |-> fs]
  ELSE [err |-> "ok",
        flows |-> [fs EXCEPT ![i] = IF action = "REJECTED"
                                    THEN FlowRejected(@, approval)
                                    ELSE FlowApproved(@, approval)]]

\* getFlowByExpenseId: the position of the first entry for the expense; 0 for none
FlowIndexByExpenseId(fs, expenseId) ==
  LET hits == {i \in 1..Len(fs) : fs[i].expenseId = expenseId} IN
  IF hits = {} THEN 0 ELSE CHOOSE i \in hits : \A j \in hits : i <= j

\* GetPendingApprovalsForRole with the role looked for in every step of the flow
GetPendingApprovalsForRoleAnyStep(fs, approverRole) ==
  LET Waits(flow) ==
        /\ flow.status = "PENDING"
        /\ flow.currentLevel \in 1..Len(flow.steps)
        /\ flow.steps[flow.currentLevel].status = "PENDING"
        /\ \E k \in 1..Len(flow.steps) : approverRole \in flow.steps[k].approverRoles IN
  SelectSeq(fs, Waits)

\* getPendingApprovalsForRole(approverRole): the flows that pass the filter, in
\* the order of the Map
GetPendingApprovalsForRole(fs, approverRole) ==
  LET Waits(flow) ==
        /\ flow.status = "PENDING"
        /\ flow.currentLevel \in 1..Len(flow.steps)
        /\ flow.steps[flow.currentLevel].status = "PENDING"
        /\ approverRole \in flow.steps[flow.currentLevel].approverRoles IN
  SelectSeq(fs, Waits)

\* the steps of getApprovalSummary, with every action of a step counted
SummarySteps(flow) ==
  [k \in 1..Len(flow.steps) |->
     [level |-> flow.steps[k].level,
      roles |-> flow.steps[k].approverRoles,
      required |-> flow.steps[k].requiredApprovers,
      approved |-> ApprovedCount(flow.steps[k].approvals),
      status |-> flow.steps[k].status]]

\* GetApprovalSummary with every action of a step counted as approved
GetApprovalSummaryCountsAll(fs, flowId) ==
  LET i == FlowIndex(fs, flowId) IN
  IF i = 0 THEN [found |-> FALSE]
  ELSE [found |-> TRUE,
        currentLevel |-> fs[i].currentLevel,
        totalLevels |-> fs[i].totalLevels,
        status |-> fs[i].status,
        steps |-> [k \in 1..Len(fs[i].steps) |->
                     [SummarySteps(fs[i])[k] EXCEPT
                        !.approved = Len(fs[i].steps[k].approvals)]]]

\* getApprovalSummary(flowId); found is false for null
GetApprovalSummary(fs, flowId) ==
  LET i == FlowIndex(fs, flowId) IN
  IF i = 0 THEN [found |-> FALSE]
  ELSE [found |-> TRUE,
        currentLevel |-> fs[i].currentLevel,
        totalLevels |-> fs[i].totalLevels,
        status |-> fs[i].status,
        steps |-> SummarySteps(fs[i])]

\* CanApprove without the look for an earlier action of the approver
CanApproveNoActedCheck(fs, flowId, approverRole, approverId) ==
  LET i == FlowIndex(fs, flowId) IN
  IF i = 0 THEN FALSE
  ELSE IF fs[i].status # "PENDING" THEN FALSE
  ELSE IF fs[i].currentLevel \notin 1..Len(fs[i].steps) THEN FALSE
  ELSE IF fs[i].steps[fs[i].currentLevel].status # "PENDING" THEN FALSE
  ELSE approverRole \in fs[i].steps[fs[i].currentLevel].approverRoles

\* canApprove(flowId, approverRole, approverId)
CanApprove(fs, flowId, approverRole, approverId) ==
  LET i == FlowIndex(fs, flowId) IN
  IF i = 0 THEN FALSE
  ELSE IF fs[i].status # "PENDING" THEN FALSE
  ELSE IF fs[i].currentLevel \notin 1..Len(fs[i].steps) THEN FALSE
  ELSE IF fs[i].steps[fs[i].currentLevel].status # "PENDING" THEN FALSE
  ELSE IF approverRole \notin fs[i].steps[fs[i].currentLevel].approverRoles THEN FALSE
  ELSE ~HasActed(fs[i].steps[fs[i].currentLevel], approverId)

----------------------------------------------------------------------------
(* ExpenseService                                                          *)

\* createExpense: a draft with an empty history under a fresh id
NewExpense(id, employeeId, amount, category) ==
  [id |-> id, employeeId |-> employeeId, amount |-> amount, category |-> category,
   status |-> "DRAFT", submittedAt |-> FALSE, approvalHistory |-> <<>>]

\* SubmitExpense without the check that the expense is still a draft
SubmitExpenseNoDraftCheck(rs, fs, es, expenseId, t) ==
  IF expenseId \notin DOMAIN es
  THEN [err |-> "ExpenseNotFound", expenses |-> es, flows |-> fs]
  ELSE LET marked == [es EXCEPT ![expenseId].status = "PENDING",
                                ![expenseId].submittedAt = TRUE]
           made == CreateApprovalFlow(rs, fs, marked[expenseId], t) IN
       [err |-> made.err, expenses |-> marked, flows |-> made.flows]

\* submitExpense(expenseId) at millisecond t
SubmitExpense(rs, fs, es, expenseId, t) ==
  IF expenseId \notin DOMAIN es
  THEN [err |-> "ExpenseNotFound", expenses |-> es, flows |-> fs]
  ELSE IF es[expenseId].status # "DRAFT"
  THEN [err |-> "AlreadySubmitted", expenses |-> es, flows |-> fs]
  ELSE LET marked == [es EXCEPT ![expenseId].status = "PENDING",
                                ![expenseId].submittedAt = TRUE]
           made == CreateApprovalFlow(rs, fs, marked[expenseId], t) IN
       [err |-> made.err, expenses |-> marked, flows |-> made.flows]

\* the approverLevel processExpenseApproval writes into the history record
RecordedLevel(updatedFlow, action) ==
  updatedFlow.currentLevel
    - (IF action = "APPROVED" /\ updatedFlow.status = "APPROVED" THEN 0 ELSE 1)

\* ExpenseAfterApproval with only an approved flow mirrored
ExpenseAfterApprovalIgnoresRejection(expense, updatedFlow, approverId, action) ==
  LET record == [approverId |-> approverId,
                 approverLevel |-> RecordedLevel(updatedFlow, action),
                 action |-> action]
      pushed == [expense EXCEPT !.approvalHistory = Append(@, record)] IN
  IF updatedFlow.status = "APPROVED" THEN [pushed EXCEPT !.status = "APPROVED"]
  ELSE pushed

\* the expense after a successful processApproval: record pushed, status mirrored
ExpenseAfterApproval(expense, updatedFlow, approverId, action) ==
  LET record == [approverId |-> approverId,
                 approverLevel |-> RecordedLevel(updatedFlow, action),
                 action |-> action]
      pushed == [expense EXCEPT !.approvalHistory = Append(@, record)] IN
  IF updatedFlow.status = "APPROVED" THEN [pushed EXCEPT !.status = "APPROVED"]
  ELSE IF updatedFlow.status = "REJECTED" THEN [pushed EXCEPT !.status = "REJECTED"]
  ELSE pushed

\* ProcessExpenseApproval without the check that the expense is pending
ProcessExpenseApprovalNoPendingCheck(fs, es, expenseId, approverId, approverRole, action) ==
  IF expenseId \notin DOMAIN es
  THEN [err |-> "ExpenseNotFound", expenses |-> es, flows |-> fs]
  ELSE LET i == FlowIndexByExpenseId(fs, expenseId) IN
       IF i = 0 THEN [err |-> "NoFlowForExpense", expenses |-> es, flows |-> fs]
       ELSE LET done == ProcessApproval(fs, fs[i].id, approverId, approverRole, action) IN
            IF done.err # "ok"
            THEN [err |-> done.err, expenses |-> es, flows |-> fs]
            ELSE [err |-> "ok",
                  expenses |-> [es EXCEPT ![expenseId] =
                                  ExpenseAfterApproval(@, done.flows[i], approverId, action)],
                  flows |-> done.flows]

\* processExpenseApproval(expenseId, approverId, _, approverRole, action)
ProcessExpenseApproval(fs, es, expenseId, approverId, approverRole, action) ==
  IF expenseId \notin DOMAIN es
  THEN [err |-> "ExpenseNotFound", expenses |-> es, flows |-> fs]
  ELSE IF es[expenseId].status # "PENDING"
  THEN [err |-> "ExpenseNotPending", expenses |-> es, flows |-> fs]
  ELSE LET i == FlowIndexByExpenseId(fs, expenseId) IN
       IF i = 0 THEN [err |-> "NoFlowForExpense", expenses |-> es, flows |-> fs]
       ELSE LET done == ProcessApproval(fs, fs[i].id, approverId, approverRole, action) IN
            IF done.err # "ok"
            THEN [err |-> done.err, expenses |-> es, flows |-> fs]
            ELSE [err |-> "ok",
                  expenses |-> [es EXCEPT ![expenseId] =
                                  ExpenseAfterApproval(@, done.flows[i], approverId, action)],
                  flows |-> done.flows]

\* CancelExpense without the check for an approved or rejected expense
CancelExpenseAnyStatus(es, expenseId, employeeId) ==
  IF expenseId \notin DOMAIN es THEN [err |-> "ExpenseNotFound", expenses |-> es]
  ELSE IF es[expenseId].employeeId # employeeId THEN [err |-> "NotOwner", expenses |-> es]
  ELSE [err |-> "ok", expenses |-> [es EXCEPT ![expenseId].status = "CANCELLED"]]

\* cancelExpense(expenseId, employeeId)
CancelExpense(es, expenseId, employeeId) ==
  IF expenseId \notin DOMAIN es THEN [err |-> "ExpenseNotFound", expenses |-> es]
  ELSE IF es[expenseId].employeeId # employeeId THEN [err |-> "NotOwner", expenses |-> es]
  ELSE IF es[expenseId].status \in {"APPROVED", "REJECTED"}
  THEN [err |-> "AlreadyFinal", expenses |-> es]
  ELSE [err |-> "ok", expenses |-> [es EXCEPT ![expenseId].status = "CANCELLED"]]

\* getPendingExpensesForApprover(approverRole): the stored expenses whose id is
\* the expenseId of a flow getPendingApprovalsForRole returns
GetPendingExpensesForApprover(fs, es, approverRole) ==
  LET pendingFlows == GetPendingApprovalsForRole(fs, approverRole)
      expenseIds == {pendingFlows[k].expenseId : k \in 1..Len(pendingFlows)}
      Listed(expense) == expense.id \in expenseIds IN
  SelectSeq(es, Listed)

----------------------------------------------------------------------------
(* The client store (useAppStore)                                          *)
(*                                                                         *)
(* The state of the store is a record of its users, expenses, rules and    *)
(* currentUser (kept as the user's id). Kept of each record: the fields    *)
(* submitExpense, approveExpense and rejectExpense read or write. A field  *)
(* that is not set holds Undefined.                                        *)

Undefined == "undefined"

initialUsers ==
  << [id |-> "1", role |-> "admin", managerId |-> Undefined],
     [id |-> "2", role |-> "manager", managerId |-> Undefined],
     [id |-> "3", role |-> "employee", managerId |-> "2"] >>

initialExpenses ==
  << [id |-> "e1", employeeId |-> "3", status |-> "approved",
      approvalRuleId |-> Undefined, currentApproverId |-> Undefined,
      approvalHistory |->
        <<[approverId |-> "2", action |-> "approved", sequenceStep |-> 1]>>] >>

initialRules ==
  << [id |-> "r1", isManagerFirstApprover |-> TRUE, isSequential |-> TRUE,
      minimumApprovalPercentage |-> 100,
      approvers |-> <<[approverId |-> "1", sequenceOrder |-> 2, isRequired |-> TRUE]>>] >>

\* the store as create() leaves it
initialStore ==
  [users |-> initialUsers, expenses |-> initialExpenses,
   currentUser |-> Undefined, rules |-> initialRules]

\* array.find(x => x.id === id), as the index of the element; 0 when none
FindIndexById(array, id) ==
  IF \E k \in 1..Len(array) : array[k].id = id
  THEN CHOOSE k \in 1..Len(array) :
         /\ array[k].id = id
         /\ \A j \in 1..(k - 1) : array[j].id # id
  ELSE 0

\* the ids the drafts of the employee page are created under
StoreExpenseIds == {"e2"}
\* the employees who file them: one with a manager, one without
StoreEmployees == {"3", "2"}

\* createExpense(e): the expense is put in front of the array
StoreCreateExpense(s, e) == [s EXCEPT !.expenses = <<e>> \o s.expenses]

\* the draft the employee page hands to createExpense
NewDraft(id, employeeId) ==
  [id |-> id, employeeId |-> employeeId, status |-> "draft",
   approvalRuleId |-> Undefined, currentApproverId |-> Undefined,
   approvalHistory |-> <<>>]

\* the rules an administrator hands to createRule: a sequential rule whose
\* approvers are listed out of order and repeat the manager, a parallel rule
\* resolved by its percentage, and a parallel rule with a required approver
StoreRuleInputs ==
  << [id |-> "r2", isManagerFirstApprover |-> TRUE, isSequential |-> TRUE,
      minimumApprovalPercentage |-> 100,
      approvers |-> <<[approverId |-> "1", sequenceOrder |-> 3, isRequired |-> FALSE],
                      [approverId |-> "2", sequenceOrder |-> 1, isRequired |-> FALSE]>>],
     [id |-> "r3", isManagerFirstApprover |-> TRUE, isSequential |-> FALSE,
      minimumApprovalPercentage |-> 50,
      approvers |-> <<[approverId |-> "1", sequenceOrder |-> 1, isRequired |-> FALSE]>>],
     [id |-> "r4", isManagerFirstApprover |-> TRUE, isSequential |-> FALSE,
      minimumApprovalPercentage |-> 100,
      approvers |-> <<[approverId |-> "1", sequenceOrder |-> 1, isRequired |-> TRUE]>>] >>

\* createRule(r): the rule is put in front of the array
CreateRule(s, r) == [s EXCEPT !.rules = <<r>> \o s.rules]

\* getRuleForEmployee(employeeId): the first rule when the employee is a user,
\* as its index; 0 for null
getRuleForEmployee(s, employeeId) ==
  IF FindIndexById(s.users, employeeId) = 0 THEN 0
  ELSE IF Len(s.rules) = 0 THEN 0 ELSE 1

\* [...approvers].sort((a, b) => a.sequenceOrder - b.sequenceOrder): a stable sort
RECURSIVE SortBySequenceOrder(_)
SortBySequenceOrder(approvers) ==
  IF approvers = <<>> THEN <<>>
  ELSE LET n == Len(approvers)
           a == approvers[n]
           sorted == SortBySequenceOrder(SubSeq(approvers, 1, n - 1))
           k == Cardinality({i \in 1..Len(sorted) :
                               sorted[i].sequenceOrder <= a.sequenceOrder}) IN
       SubSeq(sorted, 1, k) \o <<a>> \o SubSeq(sorted, k + 1, Len(sorted))

\* for (const id of rest) if (!seq.includes(id)) seq.push(id)
RECURSIVE PushMissing(_, _)
PushMissing(seq, rest) ==
  IF rest = <<>> THEN seq
  ELSE PushMissing(IF \E k \in 1..Len(seq) : seq[k] = rest[1].approverId
                   THEN seq ELSE Append(seq, rest[1].approverId),
                   Tail(rest))

\* emp?.managerId ? [emp.managerId] : []
ManagerOf(s, employeeId) ==
  LET u == FindIndexById(s.users, employeeId) IN
  IF u # 0 /\ s.users[u].managerId # Undefined THEN <<s.users[u].managerId>> ELSE <<>>

\* getApproverIdsForExpense(e): the manager first when the rule says so, then the
\* rule's approvers by sequenceOrder, each id once
getApproverIdsForExpense(s, e) ==
  IF e.approvalRuleId = Undefined THEN ManagerOf(s, e.employeeId)
  ELSE LET r == FindIndexById(s.rules, e.approvalRuleId) IN
       IF r = 0 THEN <<>>
       ELSE PushMissing(IF s.rules[r].isManagerFirstApprover
                        THEN ManagerOf(s, e.employeeId) ELSE <<>>,
                        SortBySequenceOrder(s.rules[r].approvers))

\* approverIds.includes(id)
Includes(approverIds, id) == \E k \in 1..Len(approverIds) : approverIds[k] = id

\* approverIds.indexOf(id), from 1
IndexOf(approverIds, id) ==
  CHOOSE k \in 1..Len(approverIds) :
    /\ approverIds[k] = id
    /\ \A j \in 1..(k - 1) : approverIds[j] # id

\* the rule exp.approvalRuleId names in s.rules, as its index; 0 for null
RuleOfExpense(s, exp) ==
  IF exp.approvalRuleId = Undefined THEN 0 ELSE FindIndexById(s.rules, exp.approvalRuleId)

\* submitExpense(id)
StoreSubmitExpense(s, id) ==
  LET k == FindIndexById(s.expenses, id) IN
  IF k = 0 THEN s
  ELSE
    LET exp == s.expenses[k]
        r == getRuleForEmployee(s, exp.employeeId)
        ruleId == IF r = 0 THEN Undefined ELSE s.rules[r].id
        approverIds == IF r # 0
                       THEN getApproverIdsForExpense(s, [exp EXCEPT !.approvalRuleId = ruleId])
                       ELSE ManagerOf(s, exp.employeeId)
        next == [exp EXCEPT
                   !.approvalRuleId = ruleId,
                   !.status = "pending_approval",
                   !.currentApproverId =
                      IF r # 0 /\ s.rules[r].isSequential /\ approverIds # <<>>
                      THEN approverIds[1] ELSE Undefined] IN
    [s EXCEPT !.expenses[k] = next]

\* the record approveExpense and rejectExpense add to the history
HistoryRecord(exp, me, action) ==
  [approverId |-> me, action |-> action, sequenceStep |-> Len(exp.approvalHistory) + 1]

\* the parallel test with the percentage to be exceeded
ParallelApprovedAboveThreshold(s, r, approverIds, history) ==
  LET total == IF Len(approverIds) = 0 THEN 1 ELSE Len(approverIds)
      approvals == {h \in 1..Len(history) : history[h].action = "approved"}
      requiredApproverIds ==
        IF r = 0 THEN {}
        ELSE {s.rules[r].approvers[a].approverId :
                a \in {b \in 1..Len(s.rules[r].approvers) : s.rules[r].approvers[b].isRequired}}
      hasRequiredApproved == \E h \in approvals : history[h].approverId \in requiredApproverIds
      minimum == IF r = 0 THEN 100 ELSE s.rules[r].minimumApprovalPercentage
      atLeastOne == IF minimum > 1 THEN minimum ELSE 1
      threshold == IF atLeastOne < 100 THEN atLeastOne ELSE 100 IN
  hasRequiredApproved \/ Cardinality(approvals) * 100 > threshold * total

\* the parallel test without the required approver's sign-off
ParallelApprovedByPercentageOnly(s, r, approverIds, history) ==
  LET total == IF Len(approverIds) = 0 THEN 1 ELSE Len(approverIds)
      approvals == {h \in 1..Len(history) : history[h].action = "approved"}
      minimum == IF r = 0 THEN 100 ELSE s.rules[r].minimumApprovalPercentage
      atLeastOne == IF minimum > 1 THEN minimum ELSE 1
      threshold == IF atLeastOne < 100 THEN atLeastOne ELSE 100 IN
  Cardinality(approvals) * 100 >= threshold * total

\* hasRequiredApproved || pct >= threshold, of a parallel rule: an approver the
\* rule flags isRequired has approved, or the approvals are at least
\* threshold percent of the approvers, the threshold kept within 1..100
ParallelApproved(s, r, approverIds, history) ==
  LET total == IF Len(approverIds) = 0 THEN 1 ELSE Len(approverIds)
      approvals == {h \in 1..Len(history) : history[h].action = "approved"}
      requiredApproverIds ==
        IF r = 0 THEN {}
        ELSE {s.rules[r].approvers[a].approverId :
                a \in {b \in 1..Len(s.rules[r].approvers) : s.rules[r].approvers[b].isRequired}}
      hasRequiredApproved == \E h \in approvals : history[h].approverId \in requiredApproverIds
      minimum == IF r = 0 THEN 100 ELSE s.rules[r].minimumApprovalPercentage
      atLeastOne == IF minimum > 1 THEN minimum ELSE 1
      threshold == IF atLeastOne < 100 THEN atLeastOne ELSE 100 IN
  hasRequiredApproved \/ Cardinality(approvals) * 100 >= threshold * total

\* the guards approveExpense and rejectExpense share: a user is logged in, the
\* expense exists and is pending_approval, the user is one of its approvers and
\* has no record in its history
MayVote(s, id) ==
  LET k == FindIndexById(s.expenses, id) IN
  /\ s.currentUser # Undefined
  /\ k # 0
  /\ s.expenses[k].status = "pending_approval"
  /\ Includes(getApproverIdsForExpense(s, s.expenses[k]), s.currentUser)
  /\ \A h \in 1..Len(s.expenses[k].approvalHistory) :
       s.expenses[k].approvalHistory[h].approverId # s.currentUser

\* approveExpense(id)
StoreApproveExpense(s, id) ==
  IF ~MayVote(s, id) THEN s
  ELSE
    LET k == FindIndexById(s.expenses, id)
        exp == s.expenses[k]
        me == s.currentUser
        r == RuleOfExpense(s, exp)
        approverIds == getApproverIdsForExpense(s, exp)
        history == Append(exp.approvalHistory, HistoryRecord(exp, me, "approved"))
        idx == IndexOf(approverIds, me) IN
    IF r # 0 /\ s.rules[r].isSequential
    THEN IF idx < Len(approverIds)
         THEN [s EXCEPT !.expenses[k] =
                 [exp EXCEPT !.approvalHistory = history,
                             !.currentApproverId = approverIds[idx + 1]]]
         ELSE [s EXCEPT !.expenses[k] =
                 [exp EXCEPT !.approvalHistory = history,
                             !.currentApproverId = Undefined,
                             !.status = "approved"]]
    ELSE IF ParallelApproved(s, r, approverIds, history)
         THEN [s EXCEPT !.expenses[k] =
                 [exp EXCEPT !.approvalHistory = history,
                             !.currentApproverId = Undefined,
                             !.status = "approved"]]
         ELSE [s EXCEPT !.expenses[k] = [exp EXCEPT !.approvalHistory = history]]

\* rejectExpense(id)
StoreRejectExpense(s, id) ==
  IF ~MayVote(s, id) THEN s
  ELSE
    LET k == FindIndexById(s.expenses, id)
        exp == s.expenses[k]
        me == s.currentUser
        r == RuleOfExpense(s, exp)
        approverIds == getApproverIdsForExpense(s, exp)
        history == Append(exp.approvalHistory, HistoryRecord(exp, me, "rejected"))
        total == IF Len(approverIds) = 0 THEN 1 ELSE Len(approverIds)
        uniqueVoters == Cardinality({history[h].approverId : h \in 1..Len(history)}) IN
    IF r # 0 /\ s.rules[r].isSequential
    THEN [s EXCEPT !.expenses[k] =
            [exp EXCEPT !.approvalHistory = history,
                        !.currentApproverId = Undefined,
                        !.status = "rejected"]]
    ELSE IF ParallelApproved(s, r, approverIds, history)
         THEN [s EXCEPT !.expenses[k] =
                 [exp EXCEPT !.approvalHistory = history,
                             !.currentApproverId = Undefined,
                             !.status = "approved"]]
         ELSE IF uniqueVoters >= total
         THEN [s EXCEPT !.expenses[k] =
                 [exp EXCEPT !.approvalHistory = history,
                             !.currentApproverId = Undefined,
                             !.status = "rejected"]]
         ELSE [s EXCEPT !.expenses[k] = [exp EXCEPT !.approvalHistory = history]]

\* canCurrentUserActOn(e): whether the approvals page offers e to the current user
canCurrentUserActOn(s, e) ==
  LET r == RuleOfExpense(s, e) IN
  /\ s.currentUser # Undefined
  /\ e.status = "pending_approval"
  /\ Includes(getApproverIdsForExpense(s, e), s.currentUser)
  /\ \A h \in 1..Len(e.approvalHistory) : e.approvalHistory[h].approverId # s.currentUser
  /\ (r # 0 /\ s.rules[r].isSequential) => e.currentApproverId = s.currentUser

----------------------------------------------------------------------------
(* The state machine                                                       *)

Init ==
  /\ rules = NewEngine(ConstructorRules)
  /\ flows = <<>>
  /\ expenses = <<>>
  /\ now = 0
  /\ directCreates = 0
  /\ directApprovals = 0
  /\ store = initialStore

\* a millisecond passes
Tick ==
  /\ now < MaxClock
  /\ now' = now + 1
  /\ UNCHANGED <<rules, flows, expenses, directCreates, directApprovals, store>>

createExpense ==
  /\ Len(expenses) + 1 \in ExpenseIds
  /\ \E employeeId \in Employees, amount \in Amounts, category \in Categories :
       expenses' = Append(expenses,
                          NewExpense(Len(expenses) + 1, employeeId, amount, category))
  /\ UNCHANGED <<rules, flows, now, directCreates, directApprovals, store>>

submitExpense ==
  \E expenseId \in ExpenseIdInputs :
    LET r == SubmitExpense(rules, flows, expenses, expenseId, now) IN
    /\ expenses' = r.expenses
    /\ flows' = r.flows
    /\ UNCHANGED <<rules, now, directCreates, directApprovals, store>>

processExpenseApproval ==
  \E expenseId \in ExpenseIdInputs, approverId \in Approvers,
     approverRole \in Roles, action \in ApprovalActions :
    LET r == ProcessExpenseApproval(flows, expenses, expenseId,
                                    approverId, approverRole, action) IN
    /\ expenses' = r.expenses
    /\ flows' = r.flows
    /\ UNCHANGED <<rules, now, directCreates, directApprovals, store>>

cancelExpense ==
  \E expenseId \in ExpenseIdInputs, employeeId \in Requesters :
    LET r == CancelExpense(expenses, expenseId, employeeId) IN
    /\ expenses' = r.expenses
    /\ UNCHANGED <<rules, flows, now, directCreates, directApprovals, store>>

\* a caller runs createApprovalFlow itself, on an expense it got from the service
createApprovalFlow ==
  \E expenseId \in DOMAIN expenses :
    LET r == CreateApprovalFlow(rules, flows, expenses[expenseId], now) IN
    /\ r.err = "ok" => directCreates < MaxDirectCreates
    /\ flows' = r.flows
    /\ directCreates' = IF r.err = "ok" THEN directCreates + 1 ELSE directCreates
    /\ UNCHANGED <<rules, expenses, now, directApprovals, store>>

\* a caller runs processApproval itself, on any flow id
FlowIdInputs == {FlowId(e, t) : e \in ExpenseIdInputs, t \in 0..MaxClock}
processApproval ==
  \E flowId \in FlowIdInputs, approverId \in Approvers,
     approverRole \in Roles, action \in ApprovalActions :
    LET r == ProcessApproval(flows, flowId, approverId, approverRole, action) IN
    /\ r.err = "ok" => directApprovals < MaxDirectApprovals
    /\ flows' = r.flows
    /\ directApprovals' = IF r.err = "ok" THEN directApprovals + 1 ELSE directApprovals
    /\ UNCHANGED <<rules, expenses, now, directCreates, store>>

\* a caller hands a rule object of its own to addRule, each object once
addRule ==
  \E a \in DOMAIN AddableRules :
    /\ \A k \in 1..Len(rules) : rules[k].name # AddableRules[a].name
    /\ rules' = AddRule(rules, AddableRules[a])
    /\ UNCHANGED <<flows, expenses, now, directCreates, directApprovals, store>>

\* updateRule with the pending flows of the rule given its new level count
updateRuleRebindsFlows ==
  \E ruleId \in RuleIdInputs, u \in DOMAIN UpdateInputs :
    LET r == UpdateRule(rules, ruleId, UpdateInputs[u])
        k == RuleIndex(r.rules, ruleId) IN
    /\ rules' = r.rules
    /\ flows' = [i \in 1..Len(flows) |->
                   IF r.ok /\ flows[i].ruleId = ruleId /\ flows[i].status = "PENDING"
                   THEN [flows[i] EXCEPT !.totalLevels = Len(r.rules[k].approvalLevels)]
                   ELSE flows[i]]
    /\ UNCHANGED <<expenses, now, directCreates, directApprovals, store>>

updateRule ==
  \E ruleId \in RuleIdInputs, u \in DOMAIN UpdateInputs :
    /\ rules' = UpdateRule(rules, ruleId, UpdateInputs[u]).rules
    /\ UNCHANGED <<flows, expenses, now, directCreates, directApprovals, store>>

deactivateRule ==
  \E ruleId \in RuleIdInputs :
    /\ rules' = DeactivateRule(rules, ruleId).rules
    /\ UNCHANGED <<flows, expenses, now, directCreates, directApprovals, store>>

Next ==
  \/ Tick
  \/ createExpense
  \/ submitExpense
  \/ processExpenseApproval
  \/ cancelExpense
  \/ createApprovalFlow
  \/ processApproval

Spec == Init /\ [][Next]_vars

\* the rule engine under configuration while ExpenseService runs expenses
\* through it, in one millisecond and with no other caller of the flow service
RuleNext ==
  \/ addRule
  \/ updateRule
  \/ deactivateRule
  \/ createExpense
  \/ submitExpense
  \/ processExpenseApproval

RuleSpec == Init /\ [][RuleNext]_vars

\* RuleSpec with approvers who keep acting: while some approver can record an
\* action on a pending expense, one eventually does
LiveNext ==
  \/ updateRule
  \/ deactivateRule
  \/ createExpense
  \/ submitExpense
  \/ processExpenseApproval

LiveSpec == Init /\ [][LiveNext]_vars /\ WF_flows(processExpenseApproval)

\* zero or one condition of ConditionInputs, as a list
OneCondition(c) == IF c = 0 THEN <<>> ELSE <<ConditionInputs[c]>>

\* an engine constructed from one rule of up to two conditions, and one draft
\* expense createExpense stored
ConditionInit ==
  /\ \E c, d \in 0..Len(ConditionInputs) :
       rules = NewEngine(<<RuleWithConditions(OneCondition(c) \o OneCondition(d))>>)
  /\ \E employeeId \in Employees, amount \in Amounts, category \in ConditionCategories :
       expenses = <<NewExpense(1, employeeId, amount, category)>>
  /\ flows = <<>>
  /\ now = 0
  /\ directCreates = 0
  /\ directApprovals = 0
  /\ store = initialStore

\* the evaluation of conditions, as submitExpense runs it
ConditionNext == submitExpense

ConditionSpec == ConditionInit /\ [][ConditionNext]_vars

\* the system of the example program: an engine constructed from the default
\* rules, and one draft expense createExpense stored
DefaultInit ==
  /\ rules = NewEngine(DEFAULT_APPROVAL_RULES)
  /\ \E employeeId \in Employees, amount \in DefaultAmounts,
        category \in ConditionCategories :
       expenses = <<NewExpense(1, employeeId, amount, category)>>
  /\ flows = <<>>
  /\ now = 0
  /\ directCreates = 0
  /\ directApprovals = 0
  /\ store = initialStore

\* the expense goes through ExpenseService
DefaultNext ==
  \/ submitExpense
  \/ processExpenseApproval

DefaultSpec == DefaultInit /\ [][DefaultNext]_vars

\* the client store: a user logs in or out, an employee creates a draft, an
\* administrator creates a rule, and any caller runs submitExpense,
\* approveExpense or rejectExpense on any expense id
StoreIdInputs == {"e1"} \cup StoreExpenseIds \cup {"e0"}

useAppStore_login ==
  /\ \E u \in 1..Len(store.users) :
       store' = [store EXCEPT !.currentUser = store.users[u].id]
  /\ UNCHANGED <<rules, flows, expenses, now, directCreates, directApprovals>>

useAppStore_logout ==
  /\ store' = [store EXCEPT !.currentUser = Undefined]
  /\ UNCHANGED <<rules, flows, expenses, now, directCreates, directApprovals>>

\* the employee page creates a draft under an id of its own
useAppStore_createExpense ==
  /\ \E id \in StoreExpenseIds, employeeId \in StoreEmployees :
       /\ FindIndexById(store.expenses, id) = 0
       /\ store' = StoreCreateExpense(store, NewDraft(id, employeeId))
  /\ UNCHANGED <<rules, flows, expenses, now, directCreates, directApprovals>>

\* each rule of StoreRuleInputs is created once
useAppStore_createRule ==
  /\ \E r \in DOMAIN StoreRuleInputs :
       /\ FindIndexById(store.rules, StoreRuleInputs[r].id) = 0
       /\ store' = CreateRule(store, StoreRuleInputs[r])
  /\ UNCHANGED <<rules, flows, expenses, now, directCreates, directApprovals>>

useAppStore_submitExpense ==
  /\ \E id \in StoreIdInputs : store' = StoreSubmitExpense(store, id)
  /\ UNCHANGED <<rules, flows, expenses, now, directCreates, directApprovals>>

useAppStore_approveExpense ==
  /\ \E id \in StoreIdInputs : store' = StoreApproveExpense(store, id)
  /\ UNCHANGED <<rules, flows, expenses, now, directCreates, directApprovals>>

useAppStore_rejectExpense ==
  /\ \E id \in StoreIdInputs : store' = StoreRejectExpense(store, id)
  /\ UNCHANGED <<rules, flows, expenses, now, directCreates, directApprovals>>

StoreNext ==
  \/ useAppStore_login
  \/ useAppStore_logout
  \/ useAppStore_createExpense
  \/ useAppStore_createRule
  \/ useAppStore_submitExpense
  \/ useAppStore_approveExpense
  \/ useAppStore_rejectExpense

StoreSpec == Init /\ [][StoreNext]_vars

----------------------------------------------------------------------------
(* Properties                                                              *)

\* the positions of the flows stored for an expense
FlowsOf(expenseId) == {i \in 1..Len(flows) : flows[i].expenseId = expenseId}

\* a step holds enough approvals, each by an accepted role, and no rejection
StepSatisfied(step) ==
  /\ ApprovedCount(step.approvals) >= step.requiredApprovers
  /\ \A k \in 1..Len(step.approvals) :
       /\ step.approvals[k].action = "APPROVED"
       /\ step.approvals[k].approverRole \in step.approverRoles

\* a flow is approved and every one of its levels is satisfied
FlowFullyApproved(flow) ==
  /\ flow.status = "APPROVED"
  /\ Len(flow.steps) = flow.totalLevels
  /\ \A k \in 1..flow.totalLevels : StepSatisfied(flow.steps[k])

\* C1: in every reachable state an APPROVED expense has an APPROVED flow, each
\* level of which holds at least requiredApprovers approvals by accepted roles
\* and no rejection.
C1_ApprovedExpenseHasApprovedFlow ==
  \A e \in DOMAIN expenses :
    expenses[e].status = "APPROVED" =>
      \E i \in FlowsOf(e) : FlowFullyApproved(flows[i])

\* the shape of a flow around its current level
LevelShape(flow) ==
  \A k \in 1..Len(flow.steps) :
    /\ flow.steps[k].level < flow.currentLevel => flow.steps[k].status = "APPROVED"
    /\ flow.steps[k].level > flow.currentLevel =>
         flow.steps[k].status = "PENDING" /\ flow.steps[k].approvals = <<>>
    /\ flow.steps[k].level = flow.currentLevel =>
         flow.steps[k].status \in {"PENDING", "APPROVED", "REJECTED"}

\* a flow as createApprovalFlow leaves it
IsNewFlow(flow) ==
  /\ flow.status = "PENDING"
  /\ flow.currentLevel = 1
  /\ \A k \in 1..Len(flow.steps) : flow.steps[k].approvals = <<>>

\* this step stores a flow object: submitExpense or a caller's createApprovalFlow
StoresFlow ==
  \/ directCreates' # directCreates
  \/ \E e \in DOMAIN expenses :
       expenses[e].status = "DRAFT" /\ expenses'[e].status = "PENDING"

\* no stored flow object moves back a level; an entry whose level drops is a new
\* flow object that a creation stored under the same id
LevelNeverDecreases ==
  \A i \in 1..Len(flows) :
    \/ flows'[i].currentLevel >= flows[i].currentLevel
    \/ StoresFlow /\ IsNewFlow(flows'[i])

\* C2: level monotonicity: in every state of every flow the steps below the
\* current level are APPROVED, the steps above it are PENDING with no approvals,
\* only the step at the current level may be PENDING, APPROVED or REJECTED; and
\* the current level of a flow never decreases.
C2_LevelMonotonicity ==
  /\ [](\A i \in 1..Len(flows) : LevelShape(flows[i]))
  /\ [][LevelNeverDecreases]_vars

\* C2 witness: a flow has advanced to its second level and holds an action there
C2_Witness ==
  \E i \in 1..Len(flows) :
    /\ flows[i].currentLevel = 2
    /\ flows[i].steps[1].status = "APPROVED"
    /\ flows[i].steps[2].approvals # <<>>

\* the flow status the statuses of the steps call for
StatusFromSteps(flow) ==
  IF \E k \in 1..Len(flow.steps) : flow.steps[k].status = "REJECTED" THEN "REJECTED"
  ELSE IF \A k \in 1..Len(flow.steps) : flow.steps[k].status = "APPROVED" THEN "APPROVED"
  ELSE "PENDING"

\* C3: a flow is APPROVED iff every step is APPROVED, REJECTED iff some step is
\* REJECTED, and PENDING otherwise.
C3_FlowStatusFromSteps ==
  \A i \in 1..Len(flows) :
    /\ flows[i].status = "APPROVED" <=>
         \A k \in 1..Len(flows[i].steps) : flows[i].steps[k].status = "APPROVED"
    /\ flows[i].status = "REJECTED" <=>
         \E k \in 1..Len(flows[i].steps) : flows[i].steps[k].status = "REJECTED"
    /\ flows[i].status = StatusFromSteps(flows[i])

\* C4: on a flow that is REJECTED or APPROVED every processApproval call, by any
\* approver with any role and action, fails with FlowAlreadyResolved and leaves
\* the flows as they are.
C4_ResolvedFlowRefusesCalls ==
  \A i \in 1..Len(flows) :
    flows[i].status # "PENDING" =>
      \A approverId \in Approvers, approverRole \in Roles, action \in ApprovalActions :
        ProcessApproval(flows, flows[i].id, approverId, approverRole, action)
          = [err |-> "FlowAlreadyResolved", flows |-> flows]

\* C4 witness: a flow was rejected after an approval, another state has it approved
C4_Witness ==
  \E i \in 1..Len(flows) :
    /\ flows[i].status = "REJECTED"
    /\ \E k \in 1..Len(flows[i].steps) : Len(flows[i].steps[k].approvals) >= 2

\* a pending flow whose current step exists
HasCurrentStep(flow) ==
  flow.status = "PENDING" /\ flow.currentLevel \in 1..Len(flow.steps)

CurrentStep(flow) == flow.steps[flow.currentLevel]

\* C5: on a pending flow a processApproval call with a role the current step
\* does not accept fails with UnauthorizedRole, for either action, and leaves
\* the flows as they are.
C5_UnauthorizedRoleRefused ==
  \A i \in 1..Len(flows) :
    HasCurrentStep(flows[i]) =>
      \A approverId \in Approvers, action \in ApprovalActions,
         approverRole \in Roles \ CurrentStep(flows[i]).approverRoles :
        ProcessApproval(flows, flows[i].id, approverId, approverRole, action)
          = [err |-> "UnauthorizedRole", flows |-> flows]

\* C5 witness: a pending flow at level 1 that accepts DIRECTOR only at level 2,
\* with level 2 still ahead
C5_Witness ==
  \E i \in 1..Len(flows) :
    /\ HasCurrentStep(flows[i])
    /\ flows[i].currentLevel = 1 /\ flows[i].totalLevels = 2
    /\ "DIRECTOR" \notin flows[i].steps[1].approverRoles
    /\ "DIRECTOR" \in flows[i].steps[2].approverRoles

\* each approverId at most once in every step's approvals list
NoApproverTwice ==
  \A i \in 1..Len(flows) : \A k \in 1..Len(flows[i].steps) :
    \A m, n \in 1..Len(flows[i].steps[k].approvals) :
      flows[i].steps[k].approvals[m].approverId
        = flows[i].steps[k].approvals[n].approverId => m = n

\* C6 as stated: each approverId at most once per step, and a call by an
\* approver who already acted on the current step of a pending flow fails with
\* DuplicateApproval, whatever role the call names.
C6_DuplicateWhateverRole ==
  /\ NoApproverTwice
  /\ \A i \in 1..Len(flows) :
       HasCurrentStep(flows[i]) =>
         \A approverId \in Approvers, approverRole \in Roles, action \in ApprovalActions :
           HasActed(CurrentStep(flows[i]), approverId) =>
             ProcessApproval(flows, flows[i].id, approverId, approverRole, action).err
               = "DuplicateApproval"

\* C6 amended: each approverId at most once per step, and a call by an approver
\* who already acted on the current step of a pending flow fails, leaving the
\* flows as they are: with DuplicateApproval when the call names a role the step
\* accepts, with UnauthorizedRole when it does not.
C6_NoDoubleCounting ==
  /\ NoApproverTwice
  /\ \A i \in 1..Len(flows) :
       HasCurrentStep(flows[i]) =>
         \A approverId \in Approvers, approverRole \in Roles, action \in ApprovalActions :
           HasActed(CurrentStep(flows[i]), approverId) =>
             ProcessApproval(flows, flows[i].id, approverId, approverRole, action)
               = [err |-> IF approverRole \in CurrentStep(flows[i]).approverRoles
                          THEN "DuplicateApproval" ELSE "UnauthorizedRole",
                  flows |-> flows]

\* C6 witness: a pending flow whose current step holds one approval and waits
\* for a second approver
C6_Witness ==
  \E i \in 1..Len(flows) :
    /\ HasCurrentStep(flows[i])
    /\ Len(CurrentStep(flows[i]).approvals) = 1
    /\ CurrentStep(flows[i]).requiredApprovers = 2

\* C7: no partial mutation on failure: a call of submitExpense,
\* processExpenseApproval, cancelExpense, createApprovalFlow or processApproval
\* that fails leaves the expenses and the flows exactly as they were (none of
\* them writes the rules).
C7_NoPartialMutation ==
  /\ \A expenseId \in ExpenseIdInputs :
       LET r == SubmitExpense(rules, flows, expenses, expenseId, now) IN
       r.err # "ok" => r.expenses = expenses /\ r.flows = flows
  /\ \A expenseId \in ExpenseIdInputs, approverId \in Approvers,
        approverRole \in Roles, action \in ApprovalActions :
       LET r == ProcessExpenseApproval(flows, expenses, expenseId,
                                       approverId, approverRole, action) IN
       r.err # "ok" => r.expenses = expenses /\ r.flows = flows
  /\ \A expenseId \in ExpenseIdInputs, employeeId \in Requesters :
       LET r == CancelExpense(expenses, expenseId, employeeId) IN
       r.err # "ok" => r.expenses = expenses
  /\ \A expenseId \in DOMAIN expenses :
       LET r == CreateApprovalFlow(rules, flows, expenses[expenseId], now) IN
       r.err # "ok" => r.flows = flows
  /\ \A i \in 1..Len(flows), approverId \in Approvers,
        approverRole \in Roles, action \in ApprovalActions :
       LET r == ProcessApproval(flows, flows[i].id, approverId, approverRole, action) IN
       r.err # "ok" => r.flows = flows

\* no active rule has all its conditions hold for the expense
MatchesNoActiveRule(expense) ==
  \A i \in 1..Len(rules) : ~(rules[i].active /\ evaluateRule(rules[i], expense))

\* C8: submitExpense of a draft expense that matches no active rule fails with
\* NoMatchingRule and stores no flow.
C8_NoMatchNoFlow ==
  \A e \in DOMAIN expenses :
    expenses[e].status = "DRAFT" /\ MatchesNoActiveRule(expenses[e]) =>
      LET r == SubmitExpense(rules, flows, expenses, e, now) IN
      r.err = "NoMatchingRule" /\ r.flows = flows

\* C8 witness: submitExpense has run on an expense no rule matches: it is
\* marked submitted and has no flow
C8_Witness ==
  \E e \in DOMAIN expenses :
    /\ MatchesNoActiveRule(expenses[e])
    /\ expenses[e].submittedAt
    /\ FlowsOf(e) = {}

ExpenseTransitions ==
  { <<"DRAFT", "PENDING">>, <<"PENDING", "APPROVED">>, <<"PENDING", "REJECTED">>,
    <<"DRAFT", "CANCELLED">>, <<"PENDING", "CANCELLED">> }

\* C9: every change of an expense's status is DRAFT to PENDING, PENDING to
\* APPROVED or PENDING to REJECTED (with its flow resolved that way), or DRAFT
\* or PENDING to CANCELLED; once an expense is APPROVED, REJECTED or CANCELLED
\* no step changes its status or its approval history.
C9_ExpenseLifecycle ==
  [][\A e \in DOMAIN expenses :
       /\ expenses'[e].status # expenses[e].status =>
            /\ <<expenses[e].status, expenses'[e].status>> \in ExpenseTransitions
            /\ expenses'[e].status \in {"APPROVED", "REJECTED"} =>
                 flows'[FlowIndexByExpenseId(flows', e)].status = expenses'[e].status
       /\ expenses[e].status \in {"APPROVED", "REJECTED", "CANCELLED"} =>
            /\ expenses'[e].status = expenses[e].status
            /\ expenses'[e].approvalHistory = expenses[e].approvalHistory]_vars

\* C9 witness: an expense cancelled while pending, with an action on its flow
C9_Witness ==
  \E e \in DOMAIN expenses :
    /\ expenses[e].status = "CANCELLED"
    /\ expenses[e].approvalHistory # <<>>
    /\ \E i \in FlowsOf(e) : flows[i].status = "PENDING"

\* after every successful processExpenseApproval call the expense has the
\* status of the flow the call acted on
MirrorsAfterCall ==
  \A e \in DOMAIN expenses, approverId \in Approvers,
     approverRole \in Roles, action \in ApprovalActions :
    LET r == ProcessExpenseApproval(flows, expenses, e, approverId, approverRole, action) IN
    r.err = "ok" =>
      r.expenses[e].status = r.flows[FlowIndexByExpenseId(flows, e)].status

\* an expense that has a flow and is not CANCELLED has the status of that flow
MirrorsFlow ==
  \A e \in DOMAIN expenses :
    FlowsOf(e) # {} /\ expenses[e].status # "CANCELLED" =>
      expenses[e].status = flows[FlowIndexByExpenseId(flows, e)].status

\* C10 as stated: after every successful processExpenseApproval call the expense
\* status mirrors the flow status; and when all approval actions go through
\* processExpenseApproval, an expense that has a flow and is not CANCELLED has
\* the status of that flow.
C10_MirrorWhenApprovalsViaService ==
  /\ MirrorsAfterCall
  /\ directApprovals = 0 => MirrorsFlow

\* C10 amended: after every successful processExpenseApproval call the expense
\* status mirrors the flow status; and when flows are created only by
\* submitExpense and all approval actions go through processExpenseApproval, an
\* expense that has a flow and is not CANCELLED has the status of that flow.
C10_MirrorWhenFlowsViaService ==
  /\ MirrorsAfterCall
  /\ (directApprovals = 0 /\ directCreates = 0) => MirrorsFlow

\* C10 witness: processExpenseApproval has rejected an expense at the second
\* level of its flow, with no call made on the flow service by anyone else
C10_Witness ==
  \E e \in DOMAIN expenses :
    /\ directApprovals = 0 /\ directCreates = 0
    /\ expenses[e].status = "REJECTED"
    /\ Len(expenses[e].approvalHistory) = 2
    /\ flows[FlowIndexByExpenseId(flows, e)].currentLevel = 2

\* the record a successful processExpenseApproval call appended to the history
LastRecord(expense) == expense.approvalHistory[Len(expense.approvalHistory)]

\* C11: the record a successful processExpenseApproval call appends carries as
\* approverLevel the current level the flow had before the call, whether the
\* action completes the last level, advances the flow, leaves the level pending,
\* or rejects.
C11_RecordCarriesLevelOfAction ==
  \A e \in DOMAIN expenses, approverId \in Approvers,
     approverRole \in Roles, action \in ApprovalActions :
    LET r == ProcessExpenseApproval(flows, expenses, e, approverId, approverRole, action) IN
    r.err = "ok" =>
      LastRecord(r.expenses[e]).approverLevel
        = flows[FlowIndexByExpenseId(flows, e)].currentLevel

\* every submitExpense call ends as the state of the expense calls for
SubmitOutcome ==
  \A expenseId \in ExpenseIdInputs :
    LET r == SubmitExpense(rules, flows, expenses, expenseId, now) IN
    /\ expenseId \notin DOMAIN expenses =>
         r = [err |-> "ExpenseNotFound", expenses |-> expenses, flows |-> flows]
    /\ expenseId \in DOMAIN expenses /\ expenses[expenseId].status # "DRAFT" =>
         r = [err |-> "AlreadySubmitted", expenses |-> expenses, flows |-> flows]
    /\ r.err = "ok" => expenses[expenseId].status = "DRAFT"

\* a successful submitExpense call leaves the expense PENDING and one flow for
\* it, PENDING at level 1 with no action recorded
SubmitStoresOneFlow ==
  \A e \in DOMAIN expenses :
    LET r == SubmitExpense(rules, flows, expenses, e, now)
        made == {i \in 1..Len(r.flows) : r.flows[i].expenseId = e} IN
    r.err = "ok" =>
      /\ r.expenses[e].status = "PENDING"
      /\ Cardinality(made) = 1
      /\ \A i \in made : IsNewFlow(r.flows[i])

\* C12: submitExpense fails with ExpenseNotFound for an unknown id and with
\* AlreadySubmitted for an expense that is not a draft; when flows are created by
\* ExpenseService alone, at most one flow exists per expense, and a successful
\* submit leaves the expense PENDING with exactly one flow, PENDING at level 1.
C12_OneFlowPerSubmission ==
  /\ SubmitOutcome
  /\ directCreates = 0 =>
       /\ \A e \in DOMAIN expenses : Cardinality(FlowsOf(e)) <= 1
       /\ SubmitStoresOneFlow

\* C12 witness: a second submitExpense is due to fail: the expense was submitted,
\* its flow has moved on, later milliseconds have passed and nobody else has
\* created a flow
C12_Witness ==
  \E e \in DOMAIN expenses :
    /\ directCreates = 0 /\ now > 0
    /\ expenses[e].status = "PENDING"
    /\ \E i \in FlowsOf(e) : flows[i].id = FlowId(e, 0) /\ flows[i].currentLevel = 2

\* every cancelExpense call on a stored expense ends as owner and status call for
CancelOutcome ==
  \A e \in DOMAIN expenses, employeeId \in Requesters :
    LET r == CancelExpense(expenses, e, employeeId) IN
    IF employeeId # expenses[e].employeeId
    THEN r = [err |-> "NotOwner", expenses |-> expenses]
    ELSE IF expenses[e].status \in {"APPROVED", "REJECTED"}
    THEN r = [err |-> "AlreadyFinal", expenses |-> expenses]
    ELSE r = [err |-> "ok", expenses |-> [expenses EXCEPT ![e].status = "CANCELLED"]]

\* on a CANCELLED expense every processExpenseApproval and submitExpense call
\* fails and changes nothing, and cancelExpense leaves it CANCELLED
CancelledIsFinal ==
  \A e \in DOMAIN expenses :
    expenses[e].status = "CANCELLED" =>
      /\ \A approverId \in Approvers, approverRole \in Roles, action \in ApprovalActions :
           LET r == ProcessExpenseApproval(flows, expenses, e,
                                           approverId, approverRole, action) IN
           r.err # "ok" /\ r.expenses = expenses /\ r.flows = flows
      /\ LET r == SubmitExpense(rules, flows, expenses, e, now) IN
         r.err # "ok" /\ r.expenses = expenses
      /\ \A employeeId \in Requesters :
           CancelExpense(expenses, e, employeeId).expenses[e].status = "CANCELLED"

\* C13: cancelExpense fails with NotOwner for a requester who is not the owner,
\* with AlreadyFinal for the owner of an APPROVED or REJECTED expense, and sets a
\* DRAFT or PENDING expense of the owner to CANCELLED; on a CANCELLED expense
\* every processExpenseApproval call fails and no operation of the service gives
\* it another status.
C13_CancelOutcomeAndFinality ==
  /\ CancelOutcome
  /\ CancelledIsFinal

\* C13 witness: an expense cancelled while its flow waits at the second level
C13_Witness ==
  \E e \in DOMAIN expenses :
    /\ expenses[e].status = "CANCELLED"
    /\ \E i \in FlowsOf(e) : flows[i].status = "PENDING" /\ flows[i].currentLevel = 2

\* the expenses findMatchingRule is asked about
ExpenseInputs ==
  {NewExpense(0, employeeId, amount, category) :
     employeeId \in Employees, amount \in Amounts, category \in Categories}

\* the active rules all of whose conditions hold for the expense
ActiveMatches(rs, expense) ==
  {k \in 1..Len(rs) : rs[k].active /\ evaluateRule(rs[k], expense)}

\* two results of findMatchingRule are the same: both null, or the same rule
\* object with the same fields
SameRule(a, b) ==
  IF a = NoRule \/ b = NoRule THEN a = NoRule /\ b = NoRule
  ELSE a.inserted = b.inserted /\ a = b

\* C14: priority ordering: whatever addRule, updateRule and deactivateRule calls
\* came before, findMatchingRule returns null when no active rule matches the
\* expense and otherwise an active matching rule whose priority no active
\* matching rule exceeds.
C14_PriorityOrdering ==
  \A expense \in ExpenseInputs :
    LET found == findMatchingRule(rules, expense) IN
    IF ActiveMatches(rules, expense) = {} THEN found = NoRule
    ELSE /\ \E k \in ActiveMatches(rules, expense) : SameRule(found, rules[k])
         /\ \A k \in ActiveMatches(rules, expense) : found.priority >= rules[k].priority

\* C14 witness: after an addRule and a priority update two active rules of
\* different priority match the same expense
C14_Witness ==
  \E i, j \in 1..Len(rules) :
    /\ rules[i].name = "Single Level" /\ rules[i].priority = 3 /\ rules[i].active
    /\ rules[j].name = "Single Level By Director" /\ rules[j].active
    /\ \E expense \in ExpenseInputs : {i, j} \subseteq ActiveMatches(rules, expense)

\* C15: first match wins: when findMatchingRule returns rule R for an expense,
\* it still returns R after addRule of a rule of strictly lower priority.
C15_FirstMatchWins ==
  \A expense \in ExpenseInputs, a \in DOMAIN AddableRules :
    LET R == findMatchingRule(rules, expense) IN
    (R # NoRule /\ AddableRules[a].priority < R.priority) =>
      SameRule(findMatchingRule(AddRule(rules, AddableRules[a]), expense), R)

\* C15 witness: a rule of lower priority was added that matches an expense for
\* which a rule of higher priority is returned
C15_Witness ==
  \E k \in 1..Len(rules), expense \in ExpenseInputs :
    /\ rules[k].inserted > Len(ConstructorRules)
    /\ k \in ActiveMatches(rules, expense)
    /\ findMatchingRule(rules, expense).priority > rules[k].priority

\* no active rule of the list holds the id
NoActiveRuleWithId(rs, ruleId) ==
  \A k \in 1..Len(rs) : rs[k].id = ruleId => ~rs[k].active

\* updateRule and deactivateRule on an id no rule holds: false, nothing changes
UnknownIdRefused ==
  \A ruleId \in RuleIdInputs :
    RuleIndex(rules, ruleId) = 0 =>
      /\ DeactivateRule(rules, ruleId) = [ok |-> FALSE, rules |-> rules]
      /\ \A u \in DOMAIN UpdateInputs :
           UpdateRule(rules, ruleId, UpdateInputs[u]) = [ok |-> FALSE, rules |-> rules]

InactiveObject(rs, n) ==
  \E k \in 1..Len(rs) : rs[k].inserted = n /\ ~rs[k].active

\* the rule object that entered the engine at position n
RuleObject(rs, n) == rs[CHOOSE k \in 1..Len(rs) : rs[k].inserted = n]

\* the two lists hold the same rule objects, but for the one that entered at n
SameOtherObjects(rs, qs, n) ==
  /\ {rs[k].inserted : k \in 1..Len(rs)} = {qs[k].inserted : k \in 1..Len(qs)}
  /\ \A k \in 1..Len(rs) :
       rs[k].inserted # n => RuleObject(qs, rs[k].inserted) = rs[k]

CopiedFromRule(flow) ==
  <<flow.ruleId, flow.totalLevels,
    [k \in 1..Len(flow.steps) |->
       <<flow.steps[k].level, flow.steps[k].approverRoles, flow.steps[k].requiredApprovers>>]>>

\* a step that changes the rule list changes no flow and no answer of processApproval
RuleEditKeepsFlows ==
  rules' # rules =>
    /\ Len(flows') = Len(flows)
    /\ \A i \in 1..Len(flows) : CopiedFromRule(flows'[i]) = CopiedFromRule(flows[i])
    /\ flows' = flows
    /\ \A i \in 1..Len(flows), approverId \in Approvers,
          approverRole \in Roles, action \in ApprovalActions :
         ProcessApproval(flows', flows[i].id, approverId, approverRole, action)
           = ProcessApproval(flows, flows[i].id, approverId, approverRole, action)

\* C17: once a flow exists, no addRule, updateRule or deactivateRule changes its
\* totalLevels, the roles or required counts of its steps, or the result of a
\* later processApproval call on it; a flow always has one step per level it
\* counts.
C17_FlowImmuneToRuleEdits ==
  /\ [](\A i \in 1..Len(flows) : flows[i].totalLevels = Len(flows[i].steps))
  /\ [][RuleEditKeepsFlows]_vars

\* C17 witness: an expense was approved through a one-level flow of rule-1 by
\* two managers, and the rule now lists two levels, is inactive and has another
\* priority
C17_Witness ==
  \E i \in 1..Len(flows), k \in 1..Len(rules) :
    /\ flows[i].ruleId = "rule-1" /\ flows[i].status = "APPROVED"
    /\ flows[i].totalLevels = 1 /\ Len(flows[i].steps[1].approvals) = 2
    /\ rules[k].name = "Single Level" /\ ~rules[k].active /\ rules[k].priority = 3
    /\ Len(rules[k].approvalLevels) = 2

\* C18: getRules returns every rule, in non-increasing priority order, rules of
\* equal priority in the order in which they entered the engine.
C18_SortedTiesInInsertionOrder ==
  \A i, j \in 1..Len(rules) :
    i < j =>
      /\ rules[i].priority >= rules[j].priority
      /\ rules[i].priority = rules[j].priority => rules[i].inserted < rules[j].inserted

\* the conditions C19 speaks of: amount comparisons, category equality and membership
ComparesAmountOrCategory(condition) ==
  \/ /\ condition.type = "AMOUNT"
     /\ condition.operator \in {"EQUALS", "GREATER_THAN", "LESS_THAN",
                                "GREATER_THAN_OR_EQUAL", "LESS_THAN_OR_EQUAL"}
  \/ /\ condition.type = "CATEGORY"
     /\ condition.operator \in {"EQUALS", "IN"}

\* such a condition holds for the expense
ConditionHolds(condition, expense) ==
  IF condition.type = "AMOUNT"
  THEN \/ condition.operator = "EQUALS" /\ expense.amount = condition.value
       \/ condition.operator = "GREATER_THAN" /\ expense.amount > condition.value
       \/ condition.operator = "LESS_THAN" /\ expense.amount < condition.value
       \/ condition.operator = "GREATER_THAN_OR_EQUAL" /\ expense.amount >= condition.value
       \/ condition.operator = "LESS_THAN_OR_EQUAL" /\ expense.amount <= condition.value
  ELSE \/ condition.operator = "EQUALS" /\ expense.category = condition.value
       \/ condition.operator = "IN" /\ expense.category \in condition.value

\* every condition of the rule is of the given kind
AllConditions(rule, Kind(_)) ==
  \A c \in 1..Len(rule.conditions) : Kind(rule.conditions[c])

\* C19: a rule whose conditions compare the amount (EQUALS, GREATER_THAN,
\* LESS_THAN, GREATER_THAN_OR_EQUAL, LESS_THAN_OR_EQUAL) or the category (EQUALS,
\* IN) matches an expense iff each of its conditions holds: a = v, a > v, a < v,
\* a >= v, a <= v for the amount, equality or membership for the category; and
\* submitExpense creates a flow from the rule exactly when it does.
C19_RuleMatchesIffConditionsHold ==
  \A k \in 1..Len(rules), e \in DOMAIN expenses :
    AllConditions(rules[k], ComparesAmountOrCategory) =>
      LET holds == \A c \in 1..Len(rules[k].conditions) :
                     ConditionHolds(rules[k].conditions[c], expenses[e]) IN
      /\ evaluateRule(rules[k], expenses[e]) <=> holds
      /\ (Len(rules) = 1 /\ rules[k].active /\ expenses[e].status = "DRAFT") =>
           (SubmitExpense(rules, flows, expenses, e, now).err = "ok" <=> holds)

\* C19 witness: a flow was created for an expense of amount 50 in category
\* TRAVEL from a rule that asks for amount >= 50 and a category in a list
C19_Witness ==
  \E k \in 1..Len(rules), e \in DOMAIN expenses :
    /\ Len(rules[k].conditions) = 2
    /\ rules[k].conditions[1].type = "AMOUNT"
    /\ rules[k].conditions[1].operator = "GREATER_THAN_OR_EQUAL"
    /\ rules[k].conditions[2].type = "CATEGORY"
    /\ rules[k].conditions[2].operator = "IN"
    /\ expenses[e].amount = 50 /\ expenses[e].category = "TRAVEL"
    /\ \E i \in FlowsOf(e) : flows[i].ruleId = rules[k].id

\* a condition on the department or the employee level
IsPlaceholder(condition) == condition.type \in {"DEPARTMENT", "EMPLOYEE_LEVEL"}

\* C20: a DEPARTMENT or EMPLOYEE_LEVEL condition is satisfied for every expense,
\* whatever its operator and value, so an active rule whose conditions are all of
\* these types matches every expense and submitExpense creates a flow from it.
C20_DepartmentAndLevelSatisfied ==
  \A k \in 1..Len(rules), e \in DOMAIN expenses :
    /\ \A c \in 1..Len(rules[k].conditions) :
         IsPlaceholder(rules[k].conditions[c]) =>
           evaluateCondition(rules[k].conditions[c], expenses[e])
    /\ (AllConditions(rules[k], IsPlaceholder) /\ rules[k].active) =>
         /\ evaluateRule(rules[k], expenses[e])
         /\ findMatchingRule(rules, expenses[e]) # NoRule
         /\ expenses[e].status = "DRAFT" =>
              SubmitExpense(rules, flows, expenses, e, now).err = "ok"

\* C20 witness: a flow was created from a rule whose two conditions are a
\* department comparison with a number and an employee-level membership
C20_Witness ==
  \E k \in 1..Len(rules), e \in DOMAIN expenses :
    /\ Len(rules[k].conditions) = 2
    /\ rules[k].conditions[1].type = "DEPARTMENT"
    /\ rules[k].conditions[1].operator = "GREATER_THAN"
    /\ rules[k].conditions[2].type = "EMPLOYEE_LEVEL"
    /\ rules[k].conditions[2].operator = "IN"
    /\ \E i \in FlowsOf(e) : flows[i].ruleId = rules[k].id

\* the flow at position i is PENDING at a step that accepts the role
WaitsForRole(fs, i, approverRole) ==
  /\ fs[i].status = "PENDING"
  /\ fs[i].currentLevel \in 1..Len(fs[i].steps)
  /\ approverRole \in fs[i].steps[fs[i].currentLevel].approverRoles

\* getPendingApprovalsForRole returns each stored flow that waits for the role,
\* once, and nothing else
PendingApprovalsExact ==
  \A approverRole \in Roles :
    LET result == GetPendingApprovalsForRole(flows, approverRole) IN
    /\ {result[k] : k \in 1..Len(result)}
         = {flows[i] : i \in {j \in 1..Len(flows) : WaitsForRole(flows, j, approverRole)}}
    /\ Len(result)
         = Cardinality({j \in 1..Len(flows) : WaitsForRole(flows, j, approverRole)})

\* the flow at position i is in the result of getPendingApprovalsForRole
InPendingApprovals(fs, i, approverRole) ==
  LET result == GetPendingApprovalsForRole(fs, approverRole) IN
  \E k \in 1..Len(result) : result[k].id = fs[i].id

\* a flow object leaves the result for a role only when its current level is
\* completed or it is rejected, and enters it only when its level goes up by one
PendingApprovalsFollowLevel ==
  \A i \in 1..Len(flows), approverRole \in Roles :
    ~(StoresFlow /\ IsNewFlow(flows'[i])) =>
      /\ (InPendingApprovals(flows, i, approverRole)
            /\ ~InPendingApprovals(flows', i, approverRole)) =>
           \/ flows'[i].status = "REJECTED"
           \/ flows'[i].steps[flows[i].currentLevel].status = "APPROVED"
      /\ (~InPendingApprovals(flows, i, approverRole)
            /\ InPendingApprovals(flows', i, approverRole)) =>
           flows'[i].currentLevel = flows[i].currentLevel + 1
      /\ (InPendingApprovals(flows, i, approverRole)
            /\ flows'[i].currentLevel = flows[i].currentLevel
            /\ flows'[i].status = "PENDING") =>
           InPendingApprovals(flows', i, approverRole)

\* C21: getPendingApprovalsForRole(role) returns exactly the flows that are
\* PENDING at a current step whose roles contain the role; a flow leaves the
\* result for a role when its level is completed or it is rejected, and enters
\* it for a role of the next level exactly when currentLevel moves up by one.
C21_PendingApprovalsForRole ==
  /\ []PendingApprovalsExact
  /\ [][PendingApprovalsFollowLevel]_vars

\* C21 witness: a two-level flow has moved to level 2: it is returned for
\* DIRECTOR and no longer for MANAGER
C21_Witness ==
  \E i \in 1..Len(flows) :
    /\ flows[i].currentLevel = 2
    /\ InPendingApprovals(flows, i, "DIRECTOR")
    /\ ~InPendingApprovals(flows, i, "MANAGER")

\* C22: canApprove(flowId, role, approverId) is true iff the flow exists and is
\* PENDING, its current step is PENDING, the step accepts the role and the
\* approver has recorded no action on it.
C22_CanApproveIff ==
  \A flowId \in FlowIdInputs, approverRole \in Roles, approverId \in Approvers :
    CanApprove(flows, flowId, approverRole, approverId)
      <=> \E i \in 1..Len(flows) :
            /\ flows[i].id = flowId
            /\ flows[i].status = "PENDING"
            /\ flows[i].currentLevel \in 1..Len(flows[i].steps)
            /\ CurrentStep(flows[i]).status = "PENDING"
            /\ approverRole \in CurrentStep(flows[i]).approverRoles
            /\ \A k \in 1..Len(CurrentStep(flows[i]).approvals) :
                 CurrentStep(flows[i]).approvals[k].approverId # approverId

\* C22 witness: on a step that waits for a second approval canApprove is false
\* for the approver who acted and true for another with the same role
C22_Witness ==
  \E i \in 1..Len(flows), approverRole \in Roles :
    /\ HasCurrentStep(flows[i])
    /\ Len(CurrentStep(flows[i]).approvals) = 1
    /\ ~CanApprove(flows, flows[i].id, approverRole,
                   CurrentStep(flows[i]).approvals[1].approverId)
    /\ \E approverId \in Approvers :
         CanApprove(flows, flows[i].id, approverRole, approverId)

\* C23: getApprovalSummary(flowId) agrees with the stored flow: currentLevel,
\* totalLevels and status are the flow's; per step, approved is the number of
\* APPROVED actions in the approvals list and status, roles and required are the
\* step's; for an unknown flow id it returns none.
C23_SummaryAgreesWithFlow ==
  \A flowId \in FlowIdInputs :
    LET summary == GetApprovalSummary(flows, flowId)
        stored == {i \in 1..Len(flows) : flows[i].id = flowId} IN
    /\ summary.found <=> stored # {}
    /\ \A i \in stored :
         /\ summary.currentLevel = flows[i].currentLevel
         /\ summary.totalLevels = flows[i].totalLevels
         /\ summary.status = flows[i].status
         /\ Len(summary.steps) = Len(flows[i].steps)
         /\ \A k \in 1..Len(flows[i].steps) :
              /\ summary.steps[k].approved
                   = Cardinality({n \in 1..Len(flows[i].steps[k].approvals) :
                                    flows[i].steps[k].approvals[n].action = "APPROVED"})
              /\ summary.steps[k].status = flows[i].steps[k].status
              /\ summary.steps[k].roles = flows[i].steps[k].approverRoles
              /\ summary.steps[k].required = flows[i].steps[k].requiredApprovers
              /\ summary.steps[k].level = flows[i].steps[k].level

\* C23 witness: a rejected step holds one approval and one rejection, so its
\* approved count differs from the number of actions
C23_Witness ==
  \E i \in 1..Len(flows) :
    LET summary == GetApprovalSummary(flows, flows[i].id) IN
    /\ summary.found /\ summary.status = "REJECTED"
    /\ \E k \in 1..Len(flows[i].steps) :
         summary.steps[k].approved = 1 /\ Len(flows[i].steps[k].approvals) = 2

\* the flow follows the rule: PENDING at level 1, one untouched PENDING step per
\* level of the rule in the rule's order, the first one alone marked started
BuiltFromRule(flow, rule) ==
  /\ flow.status = "PENDING"
  /\ flow.currentLevel = 1
  /\ flow.totalLevels = Len(rule.approvalLevels)
  /\ Len(flow.steps) = Len(rule.approvalLevels)
  /\ \A k \in 1..Len(rule.approvalLevels) :
       /\ flow.steps[k].level = rule.approvalLevels[k].level
       /\ flow.steps[k].approverRoles = rule.approvalLevels[k].approverRoles
       /\ flow.steps[k].requiredApprovers = rule.approvalLevels[k].requiredApprovers
       /\ flow.steps[k].status = "PENDING"
       /\ flow.steps[k].approvals = <<>>
       /\ flow.steps[k].startedAt <=> k = 1

\* C24: createApprovalFlow for an expense with matching rule R returns a flow
\* that is PENDING at currentLevel 1 with totalLevels the number of levels of R
\* and one step per level in order, each with R's roles and required count,
\* status PENDING and no approvals; only step 1 is marked started.
C24_NewFlowFollowsRule ==
  \A expense \in ExpenseInputs :
    LET rule == findMatchingRule(rules, expense)
        r == CreateApprovalFlow(rules, flows, expense, now) IN
    rule.id # NoRule.id =>
      /\ r.err = "ok"
      /\ FlowIndex(r.flows, r.flowId) # 0
      /\ r.flows[FlowIndex(r.flows, r.flowId)].expenseId = expense.id
      /\ r.flows[FlowIndex(r.flows, r.flowId)].ruleId = rule.id
      /\ BuiltFromRule(r.flows[FlowIndex(r.flows, r.flowId)], rule)

\* C24 witness: the flow just stored for a submitted expense has two steps, the
\* levels of the rule that matches the expense, and its second step is not started
C24_Witness ==
  \E i \in 1..Len(flows), e \in DOMAIN expenses :
    /\ flows[i].expenseId = expenses[e].id
    /\ IsNewFlow(flows[i])
    /\ Len(flows[i].steps) = 2
    /\ flows[i].steps[1].startedAt /\ ~flows[i].steps[2].startedAt
    /\ Len(findMatchingRule(rules, expenses[e]).approvalLevels) = 2

\* C25: processApproval never fails with InvalidLevel: every stored flow has
\* 1 <= currentLevel <= totalLevels and a step at currentLevel.
C25_NoInvalidLevel ==
  /\ \A i \in 1..Len(flows) :
       /\ 1 <= flows[i].currentLevel
       /\ flows[i].currentLevel <= flows[i].totalLevels
       /\ flows[i].currentLevel \in DOMAIN flows[i].steps
  /\ \A flowId \in FlowIdInputs, approverId \in Approvers,
        approverRole \in Roles, action \in ApprovalActions :
       ProcessApproval(flows, flowId, approverId, approverRole, action).err
         # "InvalidLevel"

\* the role sets of the steps of a flow, in order
FlowRoles(flow) == [k \in 1..Len(flow.steps) |-> flow.steps[k].approverRoles]

\* the levels the documentation of the default rules gives for an amount
DocumentedLevels(amount) ==
  IF amount < 1000 THEN << {"MANAGER"} >>
  ELSE IF amount < 5000 THEN << {"MANAGER"}, {"DIRECTOR"} >>
  ELSE << {"MANAGER"}, {"DIRECTOR"}, {"VP", "CFO"} >>

\* the travel rule takes the expense
TravelOverFiveHundred(expense) == expense.category = "TRAVEL" /\ expense.amount > 500

\* createApprovalFlow succeeds for the expense with the levels Levels gives, and
\* every flow stored for it has them
FlowHasLevels(expense, Levels(_)) ==
  LET r == CreateApprovalFlow(rules, flows, expense, now) IN
  /\ r.err = "ok"
  /\ FlowRoles(r.flows[FlowIndex(r.flows, r.flowId)]) = Levels(expense)
  /\ \A i \in 1..Len(flows) :
       flows[i].expenseId = expense.id =>
         /\ FlowRoles(flows[i]) = Levels(expense)
         /\ flows[i].totalLevels = Len(Levels(expense))
         /\ \A k \in 1..Len(flows[i].steps) : flows[i].steps[k].requiredApprovers = 1

\* C26 as stated: with the default rules the flow of an expense is determined by
\* its amount: under 1000 one MANAGER level, from 1000 and under 5000 MANAGER
\* then DIRECTOR, from 5000 MANAGER, DIRECTOR, then VP or CFO.
C26_FlowDeterminedByAmount ==
  \A e \in DOMAIN expenses :
    LET ByAmount(expense) == DocumentedLevels(expense.amount) IN
    FlowHasLevels(expenses[e], ByAmount)

\* C26: with the default rules the flow of an expense that is not a TRAVEL
\* expense of more than 500 is determined by its amount: under 1000 one MANAGER
\* level, from 1000 and under 5000 MANAGER then DIRECTOR, from 5000 MANAGER,
\* DIRECTOR, then VP or CFO.
C26_FlowDeterminedByAmountUnlessTravel ==
  \A e \in DOMAIN expenses :
    LET ByAmount(expense) == DocumentedLevels(expense.amount) IN
    ~TravelOverFiveHundred(expenses[e]) => FlowHasLevels(expenses[e], ByAmount)

\* C26 witness: an expense of at least 5000 that is no travel expense is at the
\* third level of its flow, which waits for a VP or the CFO
C26_Witness ==
  \E i \in 1..Len(flows), e \in DOMAIN expenses :
    /\ flows[i].expenseId = expenses[e].id
    /\ expenses[e].amount >= 5000 /\ expenses[e].category # "TRAVEL"
    /\ flows[i].currentLevel = 3
    /\ flows[i].steps[3].approverRoles = {"VP", "CFO"}

\* C27: with the default rules every TRAVEL expense of more than 500 gets the
\* travel rule (MANAGER, then TRAVEL_COORDINATOR) although an amount rule
\* matches it too; a TRAVEL expense of 500 or less is matched by its amount alone.
C27_TravelRuleFirst ==
  \A e \in DOMAIN expenses :
    LET ByTravel(expense) == << {"MANAGER"}, {"TRAVEL_COORDINATOR"} >>
        ByAmount(expense) == DocumentedLevels(expense.amount)
        matches == {rules[k].id : k \in ActiveMatches(rules, expenses[e])} IN
    expenses[e].category = "TRAVEL" =>
      IF expenses[e].amount > 500
      THEN /\ findMatchingRule(rules, expenses[e]).id = "rule-5"
           /\ \E ruleId \in {"rule-2", "rule-3", "rule-4"} : matches = {"rule-5", ruleId}
           /\ FlowHasLevels(expenses[e], ByTravel)
           /\ \A i \in 1..Len(flows) :
                flows[i].expenseId = expenses[e].id => flows[i].ruleId = "rule-5"
      ELSE /\ findMatchingRule(rules, expenses[e]).id \in {"rule-1", "rule-2"}
           /\ matches = {findMatchingRule(rules, expenses[e]).id}
           /\ FlowHasLevels(expenses[e], ByAmount)

\* C27 witness: a TRAVEL expense of at least 5000 went through the travel rule:
\* its flow has two levels and waits for the TRAVEL_COORDINATOR
C27_Witness ==
  \E i \in 1..Len(flows), e \in DOMAIN expenses :
    /\ flows[i].expenseId = expenses[e].id
    /\ expenses[e].amount >= 5000 /\ expenses[e].category = "TRAVEL"
    /\ flows[i].ruleId = "rule-5"
    /\ flows[i].totalLevels = 2 /\ flows[i].currentLevel = 2
    /\ flows[i].steps[2].approverRoles = {"TRAVEL_COORDINATOR"}

\* the number of APPROVED actions a step holds
Approvals(step) ==
  Cardinality({n \in 1..Len(step.approvals) : step.approvals[n].action = "APPROVED"})

\* the positions of a flow other than its step at level
OtherSteps(flow, level) == DOMAIN flow.steps \ {level}

\* C28: on a successful APPROVED action the step stays PENDING and currentLevel
\* is unchanged while its APPROVED count is below requiredApprovers; the step
\* becomes APPROVED exactly on the call that brings the count to
\* requiredApprovers, and then currentLevel goes up by one if a later level
\* exists, else the flow becomes APPROVED with currentLevel unchanged.
C28_ApprovalThreshold ==
  \A flowId \in FlowIdInputs, approverId \in Approvers, approverRole \in Roles :
    LET r == ProcessApproval(flows, flowId, approverId, approverRole, "APPROVED")
        i == FlowIndex(flows, flowId)
        level == flows[i].currentLevel
        before == flows[i].steps[level]
        after == r.flows[i].steps[level] IN
    r.err = "ok" =>
      /\ Approvals(after) = Approvals(before) + 1
      /\ \A k \in OtherSteps(flows[i], level) :
           r.flows[i].steps[k].status = flows[i].steps[k].status
      /\ IF Approvals(after) < before.requiredApprovers
         THEN /\ after.status = "PENDING"
              /\ r.flows[i].currentLevel = level
              /\ r.flows[i].status = "PENDING"
         ELSE /\ after.status = "APPROVED"
              /\ Approvals(after) = before.requiredApprovers
              /\ IF level < flows[i].totalLevels
                 THEN /\ r.flows[i].currentLevel = level + 1
                      /\ r.flows[i].status = "PENDING"
                 ELSE /\ r.flows[i].currentLevel = level
                      /\ r.flows[i].status = "APPROVED"

\* C28 witness: a step that requires two approvers holds one approval and is
\* PENDING, and the approval of a second approver would complete the flow
C28_Witness ==
  \E i \in 1..Len(flows), approverId \in Approvers, approverRole \in Roles :
    LET r == ProcessApproval(flows, flows[i].id, approverId, approverRole, "APPROVED") IN
    /\ flows[i].status = "PENDING"
    /\ HasCurrentStep(flows[i])
    /\ CurrentStep(flows[i]).requiredApprovers = 2
    /\ Approvals(CurrentStep(flows[i])) = 1
    /\ CurrentStep(flows[i]).status = "PENDING"
    /\ r.err = "ok" /\ r.flows[i].status = "APPROVED"

\* C29: a successful REJECTED action sets the step and the flow to REJECTED at
\* once, whatever approvals the step holds and whatever levels remain, and no
\* step after the rejected one ever records an action.
C29_RejectionIsImmediate ==
  /\ \A flowId \in FlowIdInputs, approverId \in Approvers, approverRole \in Roles :
       LET r == ProcessApproval(flows, flowId, approverId, approverRole, "REJECTED")
           i == FlowIndex(flows, flowId)
           level == flows[i].currentLevel IN
       r.err = "ok" =>
         /\ r.flows[i].steps[level].status = "REJECTED"
         /\ r.flows[i].status = "REJECTED"
         /\ r.flows[i].currentLevel = level
         /\ Len(r.flows[i].steps[level].approvals)
              = Len(flows[i].steps[level].approvals) + 1
         /\ \A k \in OtherSteps(flows[i], level) :
              r.flows[i].steps[k] = flows[i].steps[k]
  /\ \A i \in 1..Len(flows) : \A k \in 1..Len(flows[i].steps) :
       flows[i].steps[k].status = "REJECTED" =>
         /\ flows[i].status = "REJECTED"
         /\ \A j \in 1..Len(flows[i].steps) :
              j > k => (flows[i].steps[j].approvals = <<>>
                        /\ flows[i].steps[j].status = "PENDING")
         /\ \A approverId \in Approvers, approverRole \in Roles,
               action \in ApprovalActions :
              ProcessApproval(flows, flows[i].id, approverId, approverRole, action).err
                # "ok"

\* C29 witness: a two-level flow was rejected at its first level; its second
\* level holds no action
C29_Witness ==
  \E i \in 1..Len(flows) :
    /\ flows[i].status = "REJECTED"
    /\ flows[i].totalLevels = 2 /\ flows[i].currentLevel = 1
    /\ flows[i].steps[1].status = "REJECTED"
    /\ flows[i].steps[2].approvals = <<>>

\* a condition the engine has no case for: a type outside the four declared, an
\* AMOUNT condition that is not one of the five comparisons, a CATEGORY condition
\* that is neither EQUALS nor IN
Unrecognized(condition) ==
  \/ condition.type \notin {"AMOUNT", "CATEGORY", "DEPARTMENT", "EMPLOYEE_LEVEL"}
  \/ /\ condition.type = "AMOUNT"
     /\ condition.operator \notin {"EQUALS", "GREATER_THAN", "LESS_THAN",
                                   "GREATER_THAN_OR_EQUAL", "LESS_THAN_OR_EQUAL"}
  \/ /\ condition.type = "CATEGORY"
     /\ condition.operator \notin {"EQUALS", "IN"}

\* C30: a condition with an unrecognized field or operator evaluates false, so a
\* rule containing it matches no expense: an AMOUNT condition with IN, a CATEGORY
\* condition with a comparison other than EQUALS and IN, and a condition of a
\* type outside the four declared.
C30_UnrecognizedConditionFails ==
  \A k \in 1..Len(rules), e \in DOMAIN expenses :
    /\ \A c \in 1..Len(rules[k].conditions) :
         Unrecognized(rules[k].conditions[c]) =>
           ~evaluateCondition(rules[k].conditions[c], expenses[e])
    /\ (\E c \in 1..Len(rules[k].conditions) : Unrecognized(rules[k].conditions[c])) =>
         /\ ~evaluateRule(rules[k], expenses[e])
         /\ findMatchingIndex(rules, expenses[e]) # k
         /\ \A i \in 1..Len(flows) : flows[i].ruleId # rules[k].id
         /\ (Len(rules) = 1 /\ expenses[e].status = "DRAFT") =>
              SubmitExpense(rules, flows, expenses, e, now).err = "NoMatchingRule"

\* C30 witness: the one rule of the engine asks for a category >= the category
\* of the draft expense next to a department condition; submitExpense fails on
\* the expense with NoMatchingRule and it is a draft without a flow
C30_Witness ==
  \E k \in 1..Len(rules), e \in DOMAIN expenses :
    /\ Len(rules[k].conditions) = 2
    /\ rules[k].conditions[1].type = "DEPARTMENT"
    /\ rules[k].conditions[2].type = "CATEGORY"
    /\ rules[k].conditions[2].operator = "GREATER_THAN_OR_EQUAL"
    /\ rules[k].conditions[2].value = expenses[e].category
    /\ expenses[e].status = "DRAFT" /\ flows = <<>>
    /\ SubmitExpense(rules, flows, expenses, e, now).err = "NoMatchingRule"

\* canApprove answers what processApproval would do, whatever the action
CanApproveIffWouldSucceed ==
  \A flowId \in FlowIdInputs, approverRole \in Roles, approverId \in Approvers,
     action \in ApprovalActions :
    CanApprove(flows, flowId, approverRole, approverId)
      <=> ProcessApproval(flows, flowId, approverId, approverRole, action).err = "ok"

\* C35: in every reachable state canApprove(flowId, role, approverId) is true iff
\* processApproval(flowId, approverId, _, role, action) called in that state
\* would succeed, and a flow whose status is PENDING has a current step whose
\* status is PENDING.
C35_CanApproveMatchesProcessApproval ==
  /\ CanApproveIffWouldSucceed
  /\ \A i \in 1..Len(flows) :
       flows[i].status = "PENDING" =>
         HasCurrentStep(flows[i]) /\ CurrentStep(flows[i]).status = "PENDING"

\* C36: after any sequence of ExpenseService operations every expense that
\* getPendingExpensesForApprover(role) returns has status PENDING; an expense
\* cancelled while pending is returned for no role and canApprove on its flow
\* is false.
C36_PendingExpensesArePending ==
  (directCreates = 0 /\ directApprovals = 0) =>
    /\ \A approverRole \in Roles :
         LET result == GetPendingExpensesForApprover(flows, expenses, approverRole) IN
         \A k \in 1..Len(result) : result[k].status = "PENDING"
    /\ \A e \in DOMAIN expenses :
         expenses[e].status = "CANCELLED" =>
           \A i \in FlowsOf(e), approverRole \in Roles, approverId \in Approvers :
             ~CanApprove(flows, flows[i].id, approverRole, approverId)

\* C37: after any sequence of public operations of the three services, failed
\* calls and calls made directly on the flow service included, every expense
\* with status PENDING has a flow, that flow is PENDING, and some
\* processExpenseApproval call on the expense succeeds.
C37_PendingExpenseHasPendingFlow ==
  \A e \in DOMAIN expenses :
    expenses[e].status = "PENDING" =>
      /\ FlowIndexByExpenseId(flows, e) # 0
      /\ flows[FlowIndexByExpenseId(flows, e)].status = "PENDING"
      /\ \E approverId \in Approvers, approverRole \in Roles, action \in ApprovalActions :
           ProcessExpenseApproval(flows, expenses, e, approverId, approverRole,
                                  action).err = "ok"

\* C37 without the calls that fail and the calls made on the flow service, and
\* for flows that have a step
PendingExpenseHasPendingFlowViaService ==
  (directCreates = 0 /\ directApprovals = 0) =>
    \A e \in DOMAIN expenses :
      (expenses[e].status = "PENDING" /\ FlowIndexByExpenseId(flows, e) # 0) =>
        /\ flows[FlowIndexByExpenseId(flows, e)].status = "PENDING"
        /\ flows[FlowIndexByExpenseId(flows, e)].steps # <<>> =>
             \E approverId \in Approvers, approverRole \in Roles,
                action \in ApprovalActions :
               ProcessExpenseApproval(flows, expenses, e, approverId, approverRole,
                                      action).err = "ok"

\* the step takes no further action: every call on its flow that would land on
\* it fails
StepClosed(fs, i, k) ==
  \A approverId \in Approvers, approverRole \in Roles, action \in ApprovalActions :
    LET r == ProcessApproval(fs, fs[i].id, approverId, approverRole, action) IN
    r.err = "ok" => r.flows[i].steps[k] = fs[i].steps[k]

\* C38: in every reachable state a step that requires at least one approver
\* holds at most requiredApprovers APPROVED actions and at most requiredApprovers
\* actions in all; once the count is reached or the step is rejected it accepts
\* no further action.
C38_ActionsWithinRequired ==
  \A i \in 1..Len(flows) : \A k \in 1..Len(flows[i].steps) :
    LET step == flows[i].steps[k] IN
    step.requiredApprovers >= 1 =>
      /\ Approvals(step) <= step.requiredApprovers
      /\ Len(step.approvals) <= step.requiredApprovers
      /\ (Approvals(step) = step.requiredApprovers \/ step.status = "REJECTED") =>
           (step.status # "PENDING" /\ (FlowIndex(flows, flows[i].id) = i =>
                                          StepClosed(flows, i, k)))

\* C38 witness: a step that requires two approvers was rejected by the second
\* approver after the first approved: two actions, one of them APPROVED
C38_Witness ==
  \E i \in 1..Len(flows) : \E k \in 1..Len(flows[i].steps) :
    /\ flows[i].steps[k].requiredApprovers = 2
    /\ flows[i].steps[k].status = "REJECTED"
    /\ Len(flows[i].steps[k].approvals) = 2
    /\ Approvals(flows[i].steps[k]) = 1
    /\ StepClosed(flows, i, k)

RECURSIVE FlowActions(_, _)
\* the actions recorded on the first n steps of a flow, in the order of the steps
FlowActions(flow, n) ==
  IF n = 0 THEN <<>>
  ELSE FlowActions(flow, n - 1) \o flow.steps[n].approvals

\* the history of the expense lists the actions of its flow, one record each
HistoryMirrorsFlow(e) ==
  LET i == FlowIndexByExpenseId(flows, e)
      recorded == IF i = 0 THEN <<>> ELSE FlowActions(flows[i], Len(flows[i].steps))
      history == expenses[e].approvalHistory IN
  /\ Len(history) = Len(recorded)
  /\ \A n \in 1..Len(history) :
       /\ history[n].approverId = recorded[n].approverId
       /\ history[n].action = recorded[n].action

\* no step takes a record out of an approvalHistory or changes one
HistoryAppendOnly ==
  \A e \in DOMAIN expenses :
    /\ Len(expenses'[e].approvalHistory) >= Len(expenses[e].approvalHistory)
    /\ SubSeq(expenses'[e].approvalHistory, 1, Len(expenses[e].approvalHistory))
         = expenses[e].approvalHistory

\* the approvalHistory of every expense is append-only
HistoryIsAppendOnly == [][HistoryAppendOnly]_vars

\* C39: when all approval actions go through processExpenseApproval, in every
\* reachable state an expense's approvalHistory is as long as the list of the
\* actions recorded across the steps of the expense's flow, the i-th record
\* carrying the approverId and action of the i-th action (the history being
\* append-only is HistoryIsAppendOnly).
C39_HistoryMatchesFlowActions ==
  directApprovals = 0 => \A e \in DOMAIN expenses : HistoryMirrorsFlow(e)

\* C39 with the flows created by submitExpense alone
HistoryMatchesFlowActionsViaService ==
  (directApprovals = 0 /\ directCreates = 0) =>
    \A e \in DOMAIN expenses : HistoryMirrorsFlow(e)

\* the number of steps of a flow that are APPROVED
ApprovedSteps(flow) ==
  Cardinality({k \in 1..Len(flow.steps) : flow.steps[k].status = "APPROVED"})

\* a closed step was closed by its last action, and by no action before it
ClosedByLastAction(step) ==
  LET n == Len(step.approvals) IN
  /\ step.status = "APPROVED" =>
       /\ n >= 1 /\ step.approvals[n].action = "APPROVED"
       /\ Approvals(step) = step.requiredApprovers
       /\ \A m \in 1..n : step.approvals[m].action = "APPROVED"
  /\ step.status = "REJECTED" =>
       /\ n >= 1 /\ step.approvals[n].action = "REJECTED"
       /\ \A m \in 1..(n - 1) : step.approvals[m].action = "APPROVED"
       /\ Approvals(step) < step.requiredApprovers

\* what one more call does to the flow at position i, whoever makes it
NextCallKeepsFlow(i) ==
  \A approverId \in Approvers, approverRole \in Roles, action \in ApprovalActions :
    LET r == ProcessApproval(flows, flows[i].id, approverId, approverRole, action)
        level == flows[i].currentLevel IN
    /\ flows[i].status # "PENDING" =>
         r.err = "FlowAlreadyResolved" /\ r.flows = flows
    /\ r.err = "ok" =>
         /\ flows[i].steps[level].status = "PENDING"
         /\ Len(r.flows[i].steps[level].approvals)
              = Len(flows[i].steps[level].approvals) + 1
         /\ \A k \in OtherSteps(flows[i], level) :
              /\ r.flows[i].steps[k].status = flows[i].steps[k].status
              /\ r.flows[i].steps[k].approvals = flows[i].steps[k].approvals
         /\ r.flows[i].currentLevel \in {level, level + 1}
         /\ r.flows[i].currentLevel = level + 1
              <=> (r.flows[i].steps[level].status = "APPROVED"
                   /\ level < flows[i].totalLevels)
         /\ \A j \in DOMAIN flows : j # i => r.flows[j] = flows[j]

\* C32: with several approvers issuing approval and rejection calls on one flow,
\* each call atomic, every interleaving keeps the flow invariants: each level is
\* completed by exactly one call, currentLevel advances by one per completed
\* level, and a call ordered after the flow resolved fails with
\* FlowAlreadyResolved and is not recorded.
C32_InterleavingsKeepFlowInvariants ==
  \A i \in 1..Len(flows) :
    /\ \A k \in 1..Len(flows[i].steps) : ClosedByLastAction(flows[i].steps[k])
    /\ flows[i].currentLevel
         = 1 + ApprovedSteps(flows[i]) - (IF flows[i].status = "APPROVED" THEN 1 ELSE 0)
    /\ FlowIndex(flows, flows[i].id) = i => NextCallKeepsFlow(i)

\* C32 witness: two approvers acted on the same step, one through ExpenseService
\* and one on the flow service, the second call completed the flow, and a third
\* call is refused
C32_Witness ==
  \E i \in 1..Len(flows), e \in DOMAIN expenses :
    /\ flows[i].expenseId = e
    /\ directApprovals = 1
    /\ Len(expenses[e].approvalHistory) = 1
    /\ Len(flows[i].steps) = 1
    /\ Len(flows[i].steps[1].approvals) = 2
    /\ flows[i].status = "APPROVED"
    /\ \A approverId \in Approvers, approverRole \in Roles, action \in ApprovalActions :
         ProcessApproval(flows, flows[i].id, approverId, approverRole, action).err
           = "FlowAlreadyResolved"

\* the sum of the required-approver counts of the first n steps of a flow
RECURSIVE RequiredUpTo(_, _)
RequiredUpTo(flow, n) ==
  IF n = 0 THEN 0 ELSE RequiredUpTo(flow, n - 1) + flow.steps[n].requiredApprovers

\* the successful calls on a flow, one action each, are no more than its levels require
CallsWithinRequired ==
  \A i \in 1..Len(flows) :
    Len(FlowActions(flows[i], Len(flows[i].steps)))
      <= RequiredUpTo(flows[i], Len(flows[i].steps))

\* the flow of expense e is stored and is PENDING
FlowPending(e) ==
  FlowIndexByExpenseId(flows, e) # 0
    /\ flows[FlowIndexByExpenseId(flows, e)].status = "PENDING"

\* the flow of expense e is stored and is APPROVED or REJECTED
FlowResolved(e) ==
  FlowIndexByExpenseId(flows, e) # 0
    /\ flows[FlowIndexByExpenseId(flows, e)].status \in {"APPROVED", "REJECTED"}

\* C31: under fair scheduling of approvers, with enough distinct approvers
\* holding an accepted role for each level, every flow createApprovalFlow made
\* reaches APPROVED or REJECTED, after no more successful processApproval calls
\* than the sum of the required-approver counts of its levels.
C31_FlowEventuallyResolved ==
  /\ []CallsWithinRequired
  /\ \A e \in ExpenseIds : FlowPending(e) ~> FlowResolved(e)

\* C31 for the flows that have a level
FlowWithLevelsEventuallyResolved ==
  \A e \in ExpenseIds :
    (FlowPending(e) /\ flows[FlowIndexByExpenseId(flows, e)].steps # <<>>)
      ~> FlowResolved(e)

----------------------------------------------------------------------------
(* The client store                                                        *)

\* the expense of the store with this id
StoreExpense(s, id) == s.expenses[FindIndexById(s.expenses, id)]

\* the store holds the expense, pending_approval and bound to a rule it holds
BoundPending(s, id) ==
  /\ FindIndexById(s.expenses, id) # 0
  /\ StoreExpense(s, id).status = "pending_approval"
  /\ RuleOfExpense(s, StoreExpense(s, id)) # 0

\* the rule the expense is bound to
BoundRule(s, id) == s.rules[RuleOfExpense(s, StoreExpense(s, id))]

\* the approver has a record of this action in the history
HasRecorded(history, approverId, action) ==
  \E h \in 1..Len(history) :
    history[h].approverId = approverId /\ history[h].action = action

\* every approver of the list has approved
AllHaveApproved(approverIds, history) ==
  \A a \in 1..Len(approverIds) : HasRecorded(history, approverIds[a], "approved")

\* C33: for an expense pending under a sequential rule, approveExpense and
\* rejectExpense change the expense only when the current user is its
\* currentApproverId, approveExpense leaves it approved only when every approver
\* of its ordered approver list has approved, and a rejectExpense that changes
\* it leaves it rejected
C33_SequentialInOrder ==
  \A id \in StoreIdInputs :
    (BoundPending(store, id) /\ BoundRule(store, id).isSequential) =>
      LET exp == StoreExpense(store, id)
          approverIds == getApproverIdsForExpense(store, exp)
          approved == StoreApproveExpense(store, id)
          rejected == StoreRejectExpense(store, id) IN
      /\ store.currentUser # exp.currentApproverId =>
           (approved = store /\ rejected = store)
      /\ StoreExpense(approved, id).status = "approved" =>
           AllHaveApproved(approverIds, StoreExpense(approved, id).approvalHistory)
      /\ rejected # store => StoreExpense(rejected, id).status = "rejected"

\* the part of C33 that holds: each call adds one record of the current user,
\* any rejection leaves the expense rejected, and the approvals page offers the
\* expense to its currentApproverId alone
SequentialVotesOfApprovalsPage ==
  \A id \in StoreIdInputs :
    (BoundPending(store, id) /\ BoundRule(store, id).isSequential) =>
      LET exp == StoreExpense(store, id)
          rejected == StoreRejectExpense(store, id) IN
      /\ rejected # store => StoreExpense(rejected, id).status = "rejected"
      /\ canCurrentUserActOn(store, exp) => store.currentUser = exp.currentApproverId
      /\ canCurrentUserActOn(store, exp) => StoreApproveExpense(store, id) # store

\* what the workflow keeps of an expense
Workflow(exp) == <<exp.status, exp.currentApproverId, exp.approvalHistory>>

\* C40: no submitExpense, approveExpense or rejectExpense call changes status,
\* currentApproverId or approvalHistory of an approved or rejected expense,
\* whoever is logged in, and submitExpense changes the status of a draft alone
C40_DecidedExpenseIsTerminal ==
  \A id \in StoreIdInputs :
    FindIndexById(store.expenses, id) # 0 =>
      LET exp == StoreExpense(store, id)
          submitted == StoreExpense(StoreSubmitExpense(store, id), id)
          approved == StoreExpense(StoreApproveExpense(store, id), id)
          rejected == StoreExpense(StoreRejectExpense(store, id), id) IN
      /\ exp.status \in {"approved", "rejected"} =>
           /\ Workflow(submitted) = Workflow(exp)
           /\ Workflow(approved) = Workflow(exp)
           /\ Workflow(rejected) = Workflow(exp)
      /\ submitted.status # exp.status => exp.status = "draft"

\* the part of C40 that holds: approveExpense and rejectExpense leave an
\* approved or rejected expense as it is, and submitExpense leaves every
\* expense pending_approval with its history kept
DecidedExpenseKeptByVotes ==
  \A id \in StoreIdInputs :
    FindIndexById(store.expenses, id) # 0 =>
      LET exp == StoreExpense(store, id)
          submitted == StoreExpense(StoreSubmitExpense(store, id), id) IN
      /\ exp.status \in {"approved", "rejected"} =>
           /\ StoreApproveExpense(store, id) = store
           /\ StoreRejectExpense(store, id) = store
      /\ submitted.status = "pending_approval"
      /\ submitted.approvalHistory = exp.approvalHistory

\* the current user is one of the approvers and has no record in the history
ListedAndNotVoted(s, approverIds, history) ==
  /\ s.currentUser # Undefined
  /\ \E a \in 1..Len(approverIds) : approverIds[a] = s.currentUser
  /\ \A h \in 1..Len(history) : history[h].approverId # s.currentUser

\* every record of the history is the vote of a listed approver
VotesOfListed(approverIds, history) ==
  \A h \in 1..Len(history) :
    \E a \in 1..Len(approverIds) : approverIds[a] = history[h].approverId

\* an approver the rule flags isRequired has approved
RequiredHasApproved(rule, history) ==
  \E a \in 1..Len(rule.approvers) :
    /\ rule.approvers[a].isRequired
    /\ HasRecorded(history, rule.approvers[a].approverId, "approved")

\* the listed approvers who approved are at least minimumApprovalPercentage
\* percent of the listed approvers
FractionReached(rule, approverIds, history) ==
  Cardinality({a \in 1..Len(approverIds) :
                 HasRecorded(history, approverIds[a], "approved")}) * 100
    >= rule.minimumApprovalPercentage * Len(approverIds)

\* every listed approver has voted
AllHaveVoted(approverIds, history) ==
  \A a \in 1..Len(approverIds) :
    \E h \in 1..Len(history) : history[h].approverId = approverIds[a]

\* the status the parallel policy gives an expense after a vote
ParallelOutcome(rule, approverIds, history, action) ==
  IF RequiredHasApproved(rule, history) \/ FractionReached(rule, approverIds, history)
  THEN "approved"
  ELSE IF action = "rejected" /\ AllHaveVoted(approverIds, history)
  THEN "rejected"
  ELSE "pending_approval"

\* the call changed the store as the parallel policy says: the vote is added to
\* the history when the current user is a listed approver who has not voted,
\* whoever voted before, and the status is the policy's outcome; any other
\* call changes nothing
ParallelVote(id, after, action) ==
  LET exp == StoreExpense(store, id)
      rule == BoundRule(store, id)
      approverIds == getApproverIdsForExpense(store, exp)
      history == Append(exp.approvalHistory, HistoryRecord(exp, store.currentUser, action)) IN
  IF ListedAndNotVoted(store, approverIds, exp.approvalHistory)
  THEN /\ StoreExpense(after, id).approvalHistory = history
       /\ StoreExpense(after, id).status = ParallelOutcome(rule, approverIds, history, action)
       /\ \A k \in 1..Len(store.expenses) :
            store.expenses[k].id # id => after.expenses[k] = store.expenses[k]
  ELSE after = store

====
